---------------------------- MODULE Spec2Model ----------------------------
(***************************************************************************)
(* Model of the Verilator co-simulation driver of ca2025-mycpu             *)
(* (2-mmio-trap/verilog/verilator/sim.cpp): Word Memory, the bus decoder,  *)
(* the UART and Timer register files, the VGA display glue and the clock   *)
(* driver loop Simulator::run.                                             *)
(*                                                                         *)
(* A 32-bit word (uint32_t) is the tuple <<b0, b1, b2, b3>> of its four    *)
(* bytes, b0 the least significant (byte lane 0).  Bitwise operators are   *)
(* computed bit by bit, so a word never leaves the 32-bit range.           *)
(***************************************************************************)
EXTENDS Integers, Sequences, FiniteSets, TLC

VARIABLES
    cfg,                        \* Simulator options fixed by parse_args
    scope,                      \* what is explored: the core's behaviours, the ticks
    pc,                         \* position of Simulator::run
    main_time,                  \* Simulator::main_time (tick counter)
    counter,                    \* run(): counter (half-period counter)
    clock,                      \* top->clock
    reset,                      \* top->reset
    io_memory_bundle_read_data, \* top->io_memory_bundle_read_data
    io_instruction,             \* top->io_instruction
    io_interrupt_flag,          \* top->io_interrupt_flag
    data_memory_read_word,      \* run(): data_memory_read_word
    inst_memory_read_word,      \* run(): inst_memory_read_word
    top_out,                    \* outputs of the core after its last eval()
    gotFinish,                  \* Verilated::gotFinish()
    memory,                     \* Memory::memory
    timer,                      \* TimerMMIO fields
    uart,                       \* UartMMIO fields
    vga,                        \* VGADisplay fields
    sdl_events,                 \* pending SDL quit event (not yet polled)
    evals,                      \* number of top->eval() calls made by the loop
    stdout_inst_diag,           \* "invalid read Inst address" lines printed
    stdout_progress,            \* "Simulation progress" lines printed
    frames,                     \* number of VGADisplay::render() calls
    signature_file,             \* lines written to the signature file
    vsync_samples,              \* the samples given to check_vsync, in order
    exit_reason,                \* which condition ended the loop
    quit_tick,                  \* the tick during which the first quit event was raised
    sentinel_tick,              \* first tick whose write made the halt word the sentinel
    call                        \* last operation applied by a unit specification

vars == <<cfg, scope, pc, main_time, counter, clock, reset, io_memory_bundle_read_data,
          io_instruction, io_interrupt_flag, data_memory_read_word,
          inst_memory_read_word, top_out, gotFinish, memory, timer, uart, vga,
          sdl_events, evals, stdout_inst_diag, stdout_progress, frames,
          signature_file, vsync_samples,
          exit_reason, quit_tick, sentinel_tick, call>>

runVars == <<cfg, scope, pc, main_time, counter, clock, reset, io_memory_bundle_read_data,
             io_instruction, io_interrupt_flag, data_memory_read_word,
             inst_memory_read_word, top_out, gotFinish, timer, uart, vga,
             sdl_events, evals, stdout_inst_diag, stdout_progress, frames,
          signature_file, vsync_samples,
             exit_reason, quit_tick, sentinel_tick>>

---------------------------------------------------------------------------
(* Bounds of the model *)

\* largest tick budget (-time) explored
MaxSimTime == 4
\* memory capacity in words (-memory) explored
MemWords == 2
\* longest UART transmit log explored
MaxTx == 1
\* longest sequence of UART register writes explored
MaxUartWrites == 3
\* memory capacity in words of the image loads explored
LoadWords == 4

---------------------------------------------------------------------------
(* 32-bit words as byte tuples *)

Byte == 0..255

\* the word with bytes b3 b2 b1 b0, most significant first (as written in hex)
W(b3, b2, b1, b0) == <<b0, b1, b2, b3>>

ZeroWord == W(0, 0, 0, 0)

RECURSIVE AndBits(_, _, _)
AndBits(a, b, n) ==
    IF n = 0 THEN 0
    ELSE (IF a % 2 = 1 /\ b % 2 = 1 THEN 1 ELSE 0)
         + 2 * AndBits(a \div 2, b \div 2, n - 1)

RECURSIVE OrBits(_, _, _)
OrBits(a, b, n) ==
    IF n = 0 THEN 0
    ELSE (IF a % 2 = 1 \/ b % 2 = 1 THEN 1 ELSE 0)
         + 2 * OrBits(a \div 2, b \div 2, n - 1)

\* a & b on bytes (the all-zero and all-one bytes need no bit loop)
ByteAnd(a, b) ==
    IF a = 0 \/ b = 0 THEN 0
    ELSE IF a = 255 THEN b
    ELSE IF b = 255 THEN a
    ELSE AndBits(a, b, 8)

\* a | b on bytes
ByteOr(a, b) ==
    IF a = 0 THEN b
    ELSE IF b = 0 THEN a
    ELSE IF a = 255 \/ b = 255 THEN 255
    ELSE OrBits(a, b, 8)

\* a & b
WAnd(a, b) == <<ByteAnd(a[1], b[1]), ByteAnd(a[2], b[2]),
                ByteAnd(a[3], b[3]), ByteAnd(a[4], b[4])>>
\* a | b
WOr(a, b) == <<ByteOr(a[1], b[1]), ByteOr(a[2], b[2]),
               ByteOr(a[3], b[3]), ByteOr(a[4], b[4])>>
\* ~a
WNot(a) == <<255 - a[1], 255 - a[2], 255 - a[3], 255 - a[4]>>

\* a - b modulo 2^32
WSub(a, b) ==
    LET d1 == a[1] - b[1]
        c1 == IF d1 < 0 THEN 1 ELSE 0
        d2 == a[2] - b[2] - c1
        c2 == IF d2 < 0 THEN 1 ELSE 0
        d3 == a[3] - b[3] - c2
        c3 == IF d3 < 0 THEN 1 ELSE 0
        d4 == a[4] - b[4] - c3
    IN  <<d1 % 256, d2 % 256, d3 % 256, d4 % 256>>

\* n << s modulo 2^32, for a small n and a shift s >= 24
WShl(n, s) == <<0, 0, 0, (n * (2 ^ (s - 24))) % 256>>

\* a / 4 as an integer (at most 2^30 - 1)
WDiv4(a) == a[4] * 4194304 + a[3] * 16384 + a[2] * 64 + (a[1] \div 4)

---------------------------------------------------------------------------
(* class Memory *)

\* memory.size()
MemSize(mem) == Cardinality(DOMAIN mem)

\* Memory(size): size words, all zero
Memory_new(size) == [i \in 0..(size - 1) |-> ZeroWord]

Memory_read(mem, address) ==
    LET idx == WDiv4(address)
    IN  IF idx >= MemSize(mem) THEN ZeroWord ELSE mem[idx]

\* a fetch as silent as a data read
Memory_readInst_silent(mem, address) ==
    [value |-> Memory_read(mem, address), diag |-> FALSE]

\* the word returned and whether the diagnostic line is printed
Memory_readInst(mem, address) ==
    LET idx == WDiv4(address)
    IN  IF idx >= MemSize(mem)
        THEN [value |-> ZeroWord, diag |-> TRUE]
        ELSE [value |-> mem[idx], diag |-> FALSE]

\* write_mask as built from the four strobes
WriteMask(write_strobe) ==
    LET m0 == ZeroWord
        m1 == IF write_strobe[1] THEN WOr(m0, W(0, 0, 0, 255)) ELSE m0
        m2 == IF write_strobe[2] THEN WOr(m1, W(0, 0, 255, 0)) ELSE m1
        m3 == IF write_strobe[3] THEN WOr(m2, W(0, 255, 0, 0)) ELSE m2
        m4 == IF write_strobe[4] THEN WOr(m3, W(255, 0, 0, 0)) ELSE m3
    IN  m4

\* a write that ORs the new lanes in without clearing the old ones
Memory_write_or(mem, address, value, write_strobe) ==
    LET idx == WDiv4(address)
        write_mask == WriteMask(write_strobe)
    IN  IF idx >= MemSize(mem) THEN mem
        ELSE [mem EXCEPT ![idx] = WOr(mem[idx], WAnd(value, write_mask))]

\* a write whose index wraps around the capacity instead of being dropped
Memory_write_wrap(mem, address, value, write_strobe) ==
    LET idx == WDiv4(address) % MemSize(mem)
        write_mask == WriteMask(write_strobe)
    IN  [mem EXCEPT ![idx] =
            WOr(WAnd(mem[idx], WNot(write_mask)), WAnd(value, write_mask))]

Memory_write(mem, address, value, write_strobe) ==
    LET idx == WDiv4(address)
        write_mask == WriteMask(write_strobe)
    IN  IF idx >= MemSize(mem) THEN mem
        ELSE [mem EXCEPT ![idx] =
                 WOr(WAnd(mem[idx], WNot(write_mask)), WAnd(value, write_mask))]

\* word i (from 0) of a file given as its sequence of bytes: file.read
\* copies four bytes into the uint32_t, the first into its low byte
FileWord(image, i) ==
    <<image[4 * i + 1], image[4 * i + 2], image[4 * i + 3], image[4 * i + 4]>>

\* a loader that also rejects an image ending exactly at the capacity
Memory_load_binary_strict(mem, image, load_address) ==
    LET size == Len(image)
        base == load_address \div 4
    IN  IF load_address + size >= MemSize(mem) * 4
        THEN [thrown |-> TRUE, memory |-> mem]
        ELSE [thrown |-> FALSE,
              memory |-> [j \in DOMAIN mem |->
                            IF j >= base /\ j < base + (size \div 4)
                            THEN FileWord(image, j - base) ELSE mem[j]]]

\* load_binary(filename, load_address) for a readable file holding the
\* bytes image: whether runtime_error is thrown, and the memory left
Memory_load_binary(mem, image, load_address) ==
    LET size == Len(image)
        base == load_address \div 4
    IN  IF load_address + size > MemSize(mem) * 4
        THEN [thrown |-> TRUE, memory |-> mem]
        ELSE [thrown |-> FALSE,
              memory |-> [j \in DOMAIN mem |->
                            IF j >= base /\ j < base + (size \div 4)
                            THEN FileWord(image, j - base) ELSE mem[j]]]

---------------------------------------------------------------------------
(* Bus decoder constants and decode (Simulator::run, lines 441-447) *)

DEVICE_SELECT_BITS == 3
DEVICE_SHIFT == 32 - DEVICE_SELECT_BITS
\* (1u << DEVICE_SHIFT) - 1u
DEVICE_MASK == <<255, 255, 255, (2 ^ (DEVICE_SHIFT - 24)) - 1>>
\* a UART base inside the selector-0 half of the address space
UART_BASE_low == W(16, 0, 0, 0)
UART_BASE == W(64, 0, 0, 0)
TIMER_BASE == W(128, 0, 0, 0)
VGA_BASE == W(48, 0, 0, 0)
\* the literal 0xF0000000u of the region tests
REGION_MASK == W(240, 0, 0, 0)

EffectiveAddress(device_select, address) ==
    WOr(WShl(device_select, DEVICE_SHIFT), WAnd(address, DEVICE_MASK))

IsUart(effective_address) == WAnd(effective_address, REGION_MASK) = UART_BASE
IsTimer(effective_address) == WAnd(effective_address, REGION_MASK) = TIMER_BASE
IsVga(effective_address) == WAnd(effective_address, REGION_MASK) = VGA_BASE

\* the branch of the dispatch if/else chain that is taken
Target(device_select, effective_address) ==
    IF device_select = 0 THEN "memory"
    ELSE IF IsUart(effective_address) THEN "uart"
    ELSE IF IsTimer(effective_address) THEN "timer"
    ELSE IF IsVga(effective_address) THEN "vga"
    ELSE "none"

---------------------------------------------------------------------------
(* class TimerMMIO *)

TimerMMIO_new == [limit |-> ZeroWord, enabled |-> FALSE]

\* a register file with the two offsets exchanged
TimerMMIO_write_swapped(t, offset, value) ==
    IF offset = W(0, 0, 0, 8) THEN [t EXCEPT !.limit = value]
    ELSE IF offset = W(0, 0, 0, 4) THEN [t EXCEPT !.enabled = (value # ZeroWord)]
    ELSE t

TimerMMIO_write(t, offset, value) ==
    IF offset = W(0, 0, 0, 4) THEN [t EXCEPT !.limit = value]
    ELSE IF offset = W(0, 0, 0, 8) THEN [t EXCEPT !.enabled = (value # ZeroWord)]
    ELSE t

TimerMMIO_read(t, offset) ==
    IF offset = W(0, 0, 0, 4) THEN t.limit
    ELSE IF offset = W(0, 0, 0, 8)
         THEN (IF t.enabled THEN W(0, 0, 0, 1) ELSE ZeroWord)
    ELSE ZeroWord

---------------------------------------------------------------------------
(* class UartMMIO *)

\* baudrate = 115200 = 0x0001C200
UartMMIO_new ==
    [baudrate |-> W(0, 1, 194, 0), enabled |-> FALSE, last_rx |-> 0,
     tx_log |-> <<>>]

\* a transmit register that ignores the enable flag
UartMMIO_write_always(u, offset, value) ==
    IF offset = W(0, 0, 0, 4) THEN [u EXCEPT !.baudrate = value]
    ELSE IF offset = W(0, 0, 0, 8) THEN [u EXCEPT !.enabled = (value # ZeroWord)]
    ELSE IF offset = W(0, 0, 0, 16)
         THEN [u EXCEPT !.tx_log = Append(@, WAnd(value, W(0, 0, 0, 255))[1])]
    ELSE u

UartMMIO_write(u, offset, value) ==
    IF offset = W(0, 0, 0, 4) THEN [u EXCEPT !.baudrate = value]
    ELSE IF offset = W(0, 0, 0, 8) THEN [u EXCEPT !.enabled = (value # ZeroWord)]
    ELSE IF offset = W(0, 0, 0, 16)
         THEN LET ch == WAnd(value, W(0, 0, 0, 255))[1]
              IN  IF u.enabled THEN [u EXCEPT !.tx_log = Append(@, ch)] ELSE u
    ELSE u

\* a baud-rate register that cannot be read back
UartMMIO_read_write_only(u, offset) ==
    IF offset = W(0, 0, 0, 12) THEN W(0, 0, 0, u.last_rx)
    ELSE ZeroWord

UartMMIO_read(u, offset) ==
    IF offset = W(0, 0, 0, 4) THEN u.baudrate
    ELSE IF offset = W(0, 0, 0, 12) THEN W(0, 0, 0, u.last_rx)
    ELSE ZeroWord

---------------------------------------------------------------------------
(* class VGADisplay: the vsync edge detector and the event pump *)

H_RES == 640
V_RES == 480

\* framebuffer(H_RES * V_RES * 4, 0): the pixels are kept by index
\* y * H_RES + x as <<B, G, R, A>>; a pixel never written is not in the
\* domain and holds <<0, 0, 0, 0>>
VGADisplay_new ==
    [framebuffer |-> <<>>, prev_vsync |-> TRUE, should_quit |-> FALSE]

\* the four bytes of the pixel at index i
PixelAt(fb, i) == IF i \in DOMAIN fb THEN fb[i] ELSE <<0, 0, 0, 0>>

\* an expansion that shifts the two bits to the top of the byte
vga2bit_to_8bit_shift(val) == (val * 64) % 256

\* uint8_t val * 85
vga2bit_to_8bit(val) == (val * 85) % 256

VGADisplay_update_pixel(d, rrggbb, activevideo, x_pos, y_pos) ==
    IF activevideo # 0 /\ x_pos < H_RES /\ y_pos < V_RES
    THEN LET idx == y_pos * H_RES + x_pos
             px == << vga2bit_to_8bit(AndBits(rrggbb, 3, 8)),
                      vga2bit_to_8bit(AndBits(rrggbb \div 4, 3, 8)),
                      vga2bit_to_8bit(AndBits(rrggbb \div 16, 3, 8)),
                      255 >>
         IN  [d EXCEPT !.framebuffer =
                 [i \in (DOMAIN @) \cup {idx} |-> IF i = idx THEN px ELSE @[i]]]
    ELSE d

\* a render that clears the frame once it is presented
VGADisplay_render_clear(d, ev) ==
    [vga |-> [d EXCEPT !.should_quit = (@ \/ ev), !.framebuffer = <<>>],
     presented |-> 1, polled |-> TRUE]

\* render(): drains the SDL event queue (ev: a quit event is pending) and
\* presents the frame; the result is the display and the hand-offs made
VGADisplay_render(d, ev) ==
    [vga |-> [d EXCEPT !.should_quit = (@ \/ ev)], presented |-> 1, polled |-> TRUE]

\* a detector that presents while vsync is low (level, not edge)
VGADisplay_check_vsync_level(d, vsync, ev) ==
    LET r == IF ~vsync
             THEN VGADisplay_render(d, ev)
             ELSE [vga |-> d, presented |-> 0, polled |-> FALSE]
    IN  [r EXCEPT !.vga.prev_vsync = vsync]

VGADisplay_check_vsync(d, vsync, ev) ==
    LET r == IF ~vsync /\ d.prev_vsync
             THEN VGADisplay_render(d, ev)
             ELSE [vga |-> d, presented |-> 0, polled |-> FALSE]
    IN  [r EXCEPT !.vga.prev_vsync = vsync]

VGADisplay_quit_requested(d) == d.should_quit

---------------------------------------------------------------------------
(* Bus dispatch of one tick (Simulator::run, lines 441-485) *)

\* the halt sentinel 0xBABECAFE
SENTINEL == W(186, 190, 202, 254)

\* a dispatch whose unclaimed writes fall through to Word Memory
DispatchWrite_alias(o, mem, u, t) ==
    LET ea == EffectiveAddress(o.io_deviceSelect, o.io_memory_bundle_address)
        same == [memory |-> mem, uart |-> u, timer |-> t]
    IN  IF o.io_memory_bundle_write_enable
        THEN IF o.io_deviceSelect = 0 \/ ~(IsUart(ea) \/ IsTimer(ea))
             THEN [same EXCEPT !.memory =
                      Memory_write(mem, WAnd(ea, DEVICE_MASK),
                                   o.io_memory_bundle_write_data,
                                   o.io_memory_bundle_write_strobe)]
             ELSE IF IsUart(ea)
             THEN [same EXCEPT !.uart =
                      UartMMIO_write(u, WSub(ea, UART_BASE),
                                     o.io_memory_bundle_write_data)]
             ELSE [same EXCEPT !.timer =
                      TimerMMIO_write(t, WSub(ea, TIMER_BASE),
                                      o.io_memory_bundle_write_data)]
        ELSE same

\* a dispatch that also stores peripheral writes in memory
DispatchWrite_shadow(o, mem, u, t) ==
    LET ea == EffectiveAddress(o.io_deviceSelect, o.io_memory_bundle_address)
        same == [memory |-> mem, uart |-> u, timer |-> t]
        stored == Memory_write(mem, WAnd(ea, DEVICE_MASK),
                               o.io_memory_bundle_write_data,
                               o.io_memory_bundle_write_strobe)
    IN  IF o.io_memory_bundle_write_enable
        THEN IF o.io_deviceSelect = 0
             THEN [same EXCEPT !.memory = stored]
             ELSE IF IsUart(ea)
             THEN [same EXCEPT !.memory = stored, !.uart =
                      UartMMIO_write(u, WSub(ea, UART_BASE),
                                     o.io_memory_bundle_write_data)]
             ELSE IF IsTimer(ea)
             THEN [same EXCEPT !.memory = stored, !.timer =
                      TimerMMIO_write(t, WSub(ea, TIMER_BASE),
                                      o.io_memory_bundle_write_data)]
             ELSE same
        ELSE same

\* the write data with the lanes that have no strobe cleared
MaskedData(data, strobe) ==
    <<IF strobe[1] THEN data[1] ELSE 0, IF strobe[2] THEN data[2] ELSE 0,
      IF strobe[3] THEN data[3] ELSE 0, IF strobe[4] THEN data[4] ELSE 0>>

\* a dispatch that applies the strobes to peripheral writes too
DispatchWrite_masked(o, mem, u, t) ==
    LET ea == EffectiveAddress(o.io_deviceSelect, o.io_memory_bundle_address)
        same == [memory |-> mem, uart |-> u, timer |-> t]
        data == MaskedData(o.io_memory_bundle_write_data,
                           o.io_memory_bundle_write_strobe)
    IN  IF o.io_memory_bundle_write_enable
        THEN IF o.io_deviceSelect = 0
             THEN [same EXCEPT !.memory =
                      Memory_write(mem, ea, o.io_memory_bundle_write_data,
                                   o.io_memory_bundle_write_strobe)]
             ELSE IF IsUart(ea)
             THEN [same EXCEPT !.uart =
                      UartMMIO_write(u, WSub(ea, UART_BASE), data)]
             ELSE IF IsTimer(ea)
             THEN [same EXCEPT !.timer =
                      TimerMMIO_write(t, WSub(ea, TIMER_BASE), data)]
             ELSE same
        ELSE same

\* lines 449-468: the write, when write-enable is asserted
DispatchWrite(o, mem, u, t) ==
    LET ea == EffectiveAddress(o.io_deviceSelect, o.io_memory_bundle_address)
        same == [memory |-> mem, uart |-> u, timer |-> t]
    IN  IF o.io_memory_bundle_write_enable
        THEN IF o.io_deviceSelect = 0
             THEN [same EXCEPT !.memory =
                      Memory_write(mem, ea, o.io_memory_bundle_write_data,
                                   o.io_memory_bundle_write_strobe)]
             ELSE IF IsUart(ea)
             THEN [same EXCEPT !.uart =
                      UartMMIO_write(u, WSub(ea, UART_BASE),
                                     o.io_memory_bundle_write_data)]
             ELSE IF IsTimer(ea)
             THEN [same EXCEPT !.timer =
                      TimerMMIO_write(t, WSub(ea, TIMER_BASE),
                                      o.io_memory_bundle_write_data)]
             ELSE same
        ELSE same

\* lines 470-483: the data read latched for the next tick
DispatchRead(o, mem, u, t) ==
    LET ea == EffectiveAddress(o.io_deviceSelect, o.io_memory_bundle_address)
    IN  IF o.io_deviceSelect = 0 THEN Memory_read(mem, ea)
        ELSE IF IsUart(ea) THEN UartMMIO_read(u, WSub(ea, UART_BASE))
        ELSE IF IsTimer(ea) THEN TimerMMIO_read(t, WSub(ea, TIMER_BASE))
        ELSE IF IsVga(ea) THEN ZeroWord
        ELSE ZeroWord

---------------------------------------------------------------------------
(* Configurations and core behaviours explored *)

\* the literal 100 of the progress report (line 512)
PROGRESS_STEPS == 100
\* clocktime (line 420)
CLOCKTIME == 1

\* tick budgets: the small ones, and one with a 1% step of a whole tick
Budgets == {1, MaxSimTime, PROGRESS_STEPS}

\* tick budgets of the runs with the display
BudgetsVga == {1, PROGRESS_STEPS}

\* halt addresses: unconfigured (0) and word 1
HaltAddrs == {ZeroWord, W(0, 0, 0, 4)}

Config(budget, halt, display) ==
    [max_sim_time |-> budget, halt_address |-> halt, memory_words |-> MemWords,
     enable_vga |-> display, dump_signature |-> FALSE,
     signature_begin |-> 0, signature_end |-> 0]

\* -signature begin end file: the dump is requested for [begin, end)
WithSignature(c, w) ==
    [c EXCEPT !.dump_signature = TRUE,
              !.signature_begin = w[1], !.signature_end = w[2]]

\* dump windows: the whole memory, a window ending inside a word, a window
\* reaching past the end of the memory, and one whose end is below its begin
SignatureWindows ==
    {<<0, 4 * MemWords>>, <<0, 6>>, <<4, 4 * MemWords + 4>>, <<8, 4>>}

AllStrobes == <<TRUE, TRUE, TRUE, TRUE>>
LowHalf == <<TRUE, TRUE, FALSE, FALSE>>
HighHalf == <<FALSE, FALSE, TRUE, TRUE>>
NoStrobes == <<FALSE, FALSE, FALSE, FALSE>>

BusRead(sel, addr) ==
    [io_deviceSelect |-> sel, io_memory_bundle_address |-> addr,
     io_memory_bundle_write_enable |-> FALSE,
     io_memory_bundle_write_strobe |-> NoStrobes,
     io_memory_bundle_write_data |-> ZeroWord]

BusWrite(sel, addr, strobe, data) ==
    [io_deviceSelect |-> sel, io_memory_bundle_address |-> addr,
     io_memory_bundle_write_enable |-> TRUE,
     io_memory_bundle_write_strobe |-> strobe,
     io_memory_bundle_write_data |-> data]

\* an address of selector 0 beyond any capacity explored (bit 28 set)
FarAddr == W(16, 0, 0, 4)

\* bus transactions of the core with the display disabled
BusOpsFull ==
    { BusRead(0, W(0, 0, 0, 4)), BusRead(0, FarAddr),
      BusRead(2, W(0, 0, 0, 4)), BusRead(4, W(0, 0, 0, 4)),
      BusRead(1, W(16, 0, 0, 0)), BusRead(5, ZeroWord),
      BusWrite(0, W(0, 0, 0, 4), AllStrobes, SENTINEL),
      BusWrite(0, W(0, 0, 0, 4), LowHalf, SENTINEL),
      BusWrite(0, W(0, 0, 0, 4), HighHalf, SENTINEL),
      BusWrite(0, FarAddr, AllStrobes, SENTINEL),
      BusWrite(2, W(0, 0, 0, 8), AllStrobes, W(0, 0, 0, 1)),
      BusWrite(2, W(0, 0, 0, 16), AllStrobes, SENTINEL),
      BusWrite(4, W(0, 0, 0, 4), AllStrobes, SENTINEL),
      BusWrite(1, W(16, 0, 0, 0), AllStrobes, SENTINEL) }

\* bus transactions of a core that only polls and writes the halt word
BusOpsHalt ==
    { BusRead(0, W(0, 0, 0, 4)),
      BusWrite(0, W(0, 0, 0, 4), AllStrobes, SENTINEL),
      BusWrite(0, W(0, 0, 0, 4), LowHalf, SENTINEL),
      BusWrite(0, W(0, 0, 0, 4), HighHalf, SENTINEL) }

\* bus transactions of the core with the display enabled
BusOpsSmall ==
    { BusRead(0, W(0, 0, 0, 4)),
      BusWrite(0, W(0, 0, 0, 4), AllStrobes, SENTINEL) }

\* bus transactions of a core that drives the peripherals: the Timer
\* registers and an offset that is none, UART offsets that are no register,
\* the video region, effective addresses of no region (selector 5, selector
\* 2 with bit 28 set, selector 1 with bit 28 clear), and memory writes of
\* a whole word and of its low half
BusOpsDev ==
    { BusWrite(4, W(0, 0, 0, 4), AllStrobes, SENTINEL),
      BusWrite(4, W(0, 0, 0, 4), AllStrobes, ZeroWord),
      BusWrite(4, W(0, 0, 0, 8), AllStrobes, SENTINEL),
      BusWrite(4, W(0, 0, 0, 8), AllStrobes, ZeroWord),
      BusWrite(4, W(0, 0, 0, 12), AllStrobes, SENTINEL),
      BusRead(4, W(0, 0, 0, 4)), BusRead(4, W(0, 0, 0, 8)),
      BusRead(4, W(0, 0, 0, 12)),
      BusWrite(2, W(0, 0, 0, 20), AllStrobes, SENTINEL),
      BusRead(2, W(0, 0, 0, 20)),
      BusWrite(1, W(16, 0, 0, 4), AllStrobes, SENTINEL),
      BusRead(1, W(16, 0, 0, 4)),
      BusWrite(5, W(0, 0, 0, 4), AllStrobes, SENTINEL),
      BusRead(5, W(0, 0, 0, 4)),
      BusWrite(2, W(16, 0, 0, 4), AllStrobes, SENTINEL),
      BusRead(1, W(0, 0, 0, 4)),
      BusWrite(0, W(0, 0, 0, 4), AllStrobes, SENTINEL),
      BusWrite(0, W(0, 0, 0, 4), LowHalf, SENTINEL) }

\* the outputs of a write with write-enable low
BusWriteOff(sel, addr, strobe, data) ==
    [BusWrite(sel, addr, strobe, data) EXCEPT
        !.io_memory_bundle_write_enable = FALSE]

\* bus transactions of a core that drives each store with several strobe
\* patterns: the UART enable, baud rate and transmit registers, the Timer
\* limit and enable registers, a memory word, the video region, and the
\* same outputs with write-enable low
BusOpsLanes ==
    { BusWrite(2, W(0, 0, 0, 8), NoStrobes, W(0, 0, 0, 1)),
      BusWrite(2, W(0, 0, 0, 4), HighHalf, SENTINEL),
      BusWrite(2, W(0, 0, 0, 16), NoStrobes, W(0, 0, 1, 65)),
      BusWrite(2, W(0, 0, 0, 16), LowHalf, W(0, 0, 1, 66)),
      BusWrite(4, W(0, 0, 0, 4), LowHalf, SENTINEL),
      BusWrite(4, W(0, 0, 0, 4), NoStrobes, W(17, 34, 51, 68)),
      BusWrite(4, W(0, 0, 0, 8), NoStrobes, W(0, 1, 0, 0)),
      BusWrite(0, W(0, 0, 0, 4), NoStrobes, SENTINEL),
      BusWrite(0, W(0, 0, 0, 4), LowHalf, SENTINEL),
      BusWrite(0, ZeroWord, AllStrobes, W(17, 34, 51, 68)),
      BusWrite(1, W(16, 0, 0, 4), AllStrobes, SENTINEL),
      BusWriteOff(0, W(0, 0, 0, 4), AllStrobes, SENTINEL),
      BusWriteOff(2, W(0, 0, 0, 16), AllStrobes, W(0, 0, 1, 65)),
      BusWriteOff(4, W(0, 0, 0, 4), AllStrobes, SENTINEL),
      BusRead(2, W(0, 0, 0, 4)) }

\* load_binary's default load_address (line 67), the one Simulator uses
LOAD_ADDRESS == 4096

\* a capacity that holds MemWords words of image at the load address
LoadedMemWords == (LOAD_ADDRESS \div 4) + MemWords

\* the first byte address beyond that capacity: 0x1000 + 4 * MemWords
BeyondLoaded == W(0, 0, 16, 4 * MemWords)

\* halt addresses of the runs with an image: unconfigured (0), the first and
\* the second word of the image, and one outside the capacity
HaltAddrsLoaded == {ZeroWord, W(0, 0, 16, 0), W(0, 0, 16, 4), BeyondLoaded}

\* image files, as their bytes: an empty one, one whose first word is the
\* sentinel, and one whose second word is
HaltImages == {<<>>, SENTINEL, ZeroWord \o SENTINEL}

\* bus transactions of a core that polls the second word of the image and
\* writes the sentinel there, whole or by halves, to word 0 and beyond the
\* capacity
BusOpsSentinel ==
    { BusRead(0, W(0, 0, 16, 4)),
      BusWrite(0, W(0, 0, 16, 4), AllStrobes, SENTINEL),
      BusWrite(0, W(0, 0, 16, 4), LowHalf, SENTINEL),
      BusWrite(0, W(0, 0, 16, 4), HighHalf, SENTINEL),
      BusWrite(0, ZeroWord, AllStrobes, SENTINEL),
      BusWrite(0, BeyondLoaded, AllStrobes, SENTINEL) }

InstAddrsFull == {W(0, 0, 0, 4), FarAddr}
InstAddrsSmall == {W(0, 0, 0, 4)}

BusOps(menu) ==
    IF menu = "full" THEN BusOpsFull
    ELSE IF menu = "halt" THEN BusOpsHalt
    ELSE IF menu = "dev" THEN BusOpsDev
    ELSE IF menu = "lanes" THEN BusOpsLanes
    ELSE IF menu = "sentinel" THEN BusOpsSentinel
    ELSE BusOpsSmall

\* the pixel signals outside active video
BlankPixel == [rrggbb |-> 0, activevideo |-> 0, x_pos |-> 0, y_pos |-> 0]

\* pixel signals of the core with the display enabled: blanking, two
\* visible samples of the same pixel (R = 1, G = 2, B = 3 and R = 2, G = 1,
\* B = 0) and an active sample past the right edge
PixelsSmall ==
    { BlankPixel,
      [rrggbb |-> 27, activevideo |-> 1, x_pos |-> 1, y_pos |-> 0],
      [rrggbb |-> 36, activevideo |-> 1, x_pos |-> 1, y_pos |-> 0],
      [rrggbb |-> 63, activevideo |-> 1, x_pos |-> H_RES, y_pos |-> 0] }

\* the outputs the core may show after an eval()
CoreOutputs(c, menu) ==
    { [io_deviceSelect |-> b.io_deviceSelect,
       io_memory_bundle_address |-> b.io_memory_bundle_address,
       io_memory_bundle_write_enable |-> b.io_memory_bundle_write_enable,
       io_memory_bundle_write_strobe |-> b.io_memory_bundle_write_strobe,
       io_memory_bundle_write_data |-> b.io_memory_bundle_write_data,
       io_instruction_address |-> ia,
       io_vga_rrggbb |-> px.rrggbb,
       io_vga_activevideo |-> px.activevideo,
       io_vga_x_pos |-> px.x_pos,
       io_vga_y_pos |-> px.y_pos,
       io_vga_vsync |-> vs] :
        b \in BusOps(menu),
        ia \in (IF menu = "full" THEN InstAddrsFull ELSE InstAddrsSmall),
        px \in (IF c.enable_vga THEN PixelsSmall ELSE {BlankPixel}),
        vs \in (IF c.enable_vga THEN BOOLEAN ELSE {TRUE}) }

\* outputs that keep the UART transmit log within MaxTx
Allowed(o) == Len(DispatchWrite(o, memory, uart, timer).uart.tx_log) <= MaxTx

IdleOutputs ==
    [io_deviceSelect |-> 0, io_memory_bundle_address |-> ZeroWord,
     io_memory_bundle_write_enable |-> FALSE,
     io_memory_bundle_write_strobe |-> NoStrobes,
     io_memory_bundle_write_data |-> ZeroWord,
     io_instruction_address |-> ZeroWord,
     io_vga_rrggbb |-> 0, io_vga_activevideo |-> 0,
     io_vga_x_pos |-> 0, io_vga_y_pos |-> 0, io_vga_vsync |-> TRUE]

---------------------------------------------------------------------------
(* Simulator: construction and run() *)

\* the state after Simulator(args) with options c and no image loaded,
\* the display apart
ConstructedRest(c) ==
    /\ cfg = c
    /\ main_time = 0
    /\ counter = 0
    /\ clock = 0
    /\ reset = 0
    /\ io_memory_bundle_read_data = ZeroWord
    /\ io_instruction = ZeroWord
    /\ io_interrupt_flag = 0
    /\ data_memory_read_word = ZeroWord
    /\ inst_memory_read_word = ZeroWord
    /\ top_out = IdleOutputs
    /\ gotFinish = FALSE
    /\ timer = TimerMMIO_new
    /\ uart = UartMMIO_new
    /\ sdl_events = FALSE
    /\ evals = 0
    /\ stdout_inst_diag = 0
    /\ stdout_progress = 0
    /\ frames = 0
    /\ signature_file = <<>>
    /\ vsync_samples = <<>>
    /\ exit_reason = "none"
    /\ quit_tick = -1
    /\ sentinel_tick = 0

\* the state after Simulator(args) with options c and no image loaded
Constructed(c) == ConstructedRest(c) /\ vga = VGADisplay_new

\* a run that skips the teardown once the loop is left
Teardown_skip == "done"

\* line 519: the statement after the loop, reached when the loop condition
\* fails and by each break
Teardown == "signature"

\* a loop condition that forgets the core's $finish
LoopCondition_no_finish(c, mt, fin) == mt < c.max_sim_time

\* line 422: the while condition
LoopCondition(c, mt, fin) == mt < c.max_sim_time /\ ~fin

\* reset released one tick early
ResetInput_early(mt, r) == IF mt >= 2 THEN 0 ELSE r

\* lines 429-430: the reset input at tick mt, r being its value before
ResetInput(mt, r) == IF mt > 2 THEN 0 ELSE r

\* the data input left as it was (only the instruction input is refreshed)
BusInputs_stale(data_word, inst_word) ==
    [read_data |-> io_memory_bundle_read_data, instruction |-> inst_word]

\* lines 432-433: the bus inputs presented to the core at this tick
BusInputs(data_word, inst_word) ==
    [read_data |-> data_word, instruction |-> inst_word]

\* a halt check without the test of the halt address
HaltRequested_any(c, mem) == Memory_read(mem, c.halt_address) = SENTINEL

\* a halt check that takes the halt address for a word index
HaltRequested_word_index(c, mem) ==
    c.halt_address # ZeroWord
    /\ Memory_read(mem, <<WDiv4(c.halt_address), 0, 0, 0>>) = SENTINEL

\* lines 506-508: the halt condition
HaltRequested(c, mem) ==
    c.halt_address # ZeroWord /\ Memory_read(mem, c.halt_address) = SENTINEL

\* the word of memory at the configured halt address is the sentinel
SentinelAtHalt(c, mem) ==
    /\ c.halt_address # ZeroWord
    /\ WDiv4(c.halt_address) \in DOMAIN mem
    /\ mem[WDiv4(c.halt_address)] = <<254, 202, 190, 186>>

\* lines 407-421: the prologue of run().  Its eval() (line 414) settles the
\* outputs of the core, which may call $finish there: the loop condition
\* then fails at once and no tick is made
RunStart ==
    /\ pc = "start"
    /\ reset' = 1
    /\ clock' = 0
    /\ \E o \in CoreOutputs(cfg, scope.menu), f \in BOOLEAN :
          /\ top_out' = o
          /\ gotFinish' = (gotFinish \/ f)
    /\ data_memory_read_word' = ZeroWord
    /\ inst_memory_read_word' = ZeroWord
    /\ counter' = 0
    /\ pc' = "loop"
    /\ UNCHANGED <<cfg, scope, main_time, io_memory_bundle_read_data, io_instruction,
                   io_interrupt_flag, memory, timer, uart, vga,
                   sdl_events, evals, stdout_inst_diag, stdout_progress, frames,
                   vsync_samples, exit_reason, quit_tick, sentinel_tick, signature_file, call>>

\* lines 422-437: the loop condition holds; the tick prologue
TickBegin ==
    /\ pc = "loop"
    /\ LoopCondition(cfg, main_time, gotFinish)
    /\ main_time < scope.horizon
    /\ main_time' = main_time + 1
    /\ IF counter + 1 > CLOCKTIME
       THEN clock' = 1 - clock /\ counter' = 0
       ELSE clock' = clock /\ counter' = counter + 1
    /\ reset' = ResetInput(main_time', reset)
    /\ io_memory_bundle_read_data' =
           BusInputs(data_memory_read_word, inst_memory_read_word).read_data
    /\ io_instruction' =
           BusInputs(data_memory_read_word, inst_memory_read_word).instruction
    /\ pc' = "eval"
    /\ UNCHANGED <<cfg, scope, io_interrupt_flag, data_memory_read_word,
                   inst_memory_read_word, top_out, gotFinish, memory, timer,
                   uart, vga, sdl_events, evals, stdout_inst_diag,
                   stdout_progress, frames, vsync_samples, exit_reason,
                   quit_tick, sentinel_tick, signature_file, call>>

\* line 422: the loop condition fails
LoopExit ==
    /\ pc = "loop"
    /\ ~LoopCondition(cfg, main_time, gotFinish)
    /\ exit_reason' = IF main_time < cfg.max_sim_time THEN "finish" ELSE "budget"
    /\ pc' = Teardown
    /\ UNCHANGED <<cfg, scope, main_time, counter, clock, reset,
                   io_memory_bundle_read_data, io_instruction, io_interrupt_flag,
                   data_memory_read_word, inst_memory_read_word, top_out,
                   gotFinish, memory, timer, uart, vga, sdl_events, evals,
                   stdout_inst_diag, stdout_progress, frames, vsync_samples,
                   quit_tick, sentinel_tick, signature_file, call>>

\* lines 438-439: the core is evaluated; it may call $finish
Eval ==
    /\ pc = "eval"
    /\ \E o \in CoreOutputs(cfg, scope.menu), f \in BOOLEAN :
          /\ Allowed(o)
          /\ top_out' = o
          /\ gotFinish' = (gotFinish \/ f)
    /\ evals' = evals + 1
    /\ io_interrupt_flag' = 0
    /\ pc' = "dispatch"
    /\ UNCHANGED <<cfg, scope, main_time, counter, clock, reset,
                   io_memory_bundle_read_data, io_instruction,
                   data_memory_read_word, inst_memory_read_word, memory, timer,
                   uart, vga, sdl_events, stdout_inst_diag, stdout_progress,
                   frames, vsync_samples, exit_reason, quit_tick, sentinel_tick,
                   signature_file, call>>

\* reads served from the stores as they were before the tick's write
ReadView_before(before, after) == before

\* lines 449-485: the write block precedes the data read and the fetch, so
\* both are served from the stores as the write left them
ReadView(before, after) == after

\* lines 441-486: decode, write, data read, instruction fetch
Dispatch ==
    /\ pc = "dispatch"
    /\ LET w == DispatchWrite(top_out, memory, uart, timer)
           v == ReadView([memory |-> memory, uart |-> uart, timer |-> timer], w)
           fetch == Memory_readInst(v.memory, top_out.io_instruction_address)
       IN  /\ memory' = w.memory
           /\ uart' = w.uart
           /\ timer' = w.timer
           /\ data_memory_read_word' =
                  DispatchRead(top_out, v.memory, v.uart, v.timer)
           /\ inst_memory_read_word' = fetch.value
           /\ stdout_inst_diag' = stdout_inst_diag + (IF fetch.diag THEN 1 ELSE 0)
           /\ sentinel_tick' =
                  IF /\ sentinel_tick = 0
                     /\ top_out.io_memory_bundle_write_enable
                     /\ ~SentinelAtHalt(cfg, memory)
                     /\ SentinelAtHalt(cfg, w.memory)
                  THEN main_time ELSE sentinel_tick
    /\ pc' = "vga"
    /\ UNCHANGED <<cfg, scope, main_time, counter, clock, reset,
                   io_memory_bundle_read_data, io_instruction, io_interrupt_flag,
                   top_out, gotFinish, vga, sdl_events, evals, stdout_progress,
                   frames, vsync_samples, exit_reason, quit_tick, signature_file, call>>

\* lines 488-504: the display block
VgaStep ==
    /\ pc = "vga"
    /\ IF cfg.enable_vga
       THEN LET d == VGADisplay_update_pixel(vga, top_out.io_vga_rrggbb,
                                                top_out.io_vga_activevideo,
                                                top_out.io_vga_x_pos,
                                                top_out.io_vga_y_pos)
                r == VGADisplay_check_vsync(d, top_out.io_vga_vsync, sdl_events)
            IN  /\ vga' = r.vga
                /\ frames' = frames + r.presented
                /\ sdl_events' = (sdl_events /\ ~r.polled)
                /\ vsync_samples' = Append(vsync_samples, top_out.io_vga_vsync)
                /\ IF VGADisplay_quit_requested(r.vga)
                   THEN pc' = Teardown /\ exit_reason' = "quit"
                   ELSE pc' = "halt" /\ exit_reason' = exit_reason
       ELSE /\ pc' = "halt"
            /\ UNCHANGED <<vga, frames, sdl_events, vsync_samples, exit_reason>>
    /\ UNCHANGED <<cfg, scope, main_time, counter, clock, reset,
                   io_memory_bundle_read_data, io_instruction, io_interrupt_flag,
                   data_memory_read_word, inst_memory_read_word, top_out,
                   gotFinish, memory, timer, uart, evals, stdout_inst_diag,
                   stdout_progress, quit_tick, sentinel_tick, signature_file, call>>

\* lines 506-509: the halt check
HaltCheck ==
    /\ pc = "halt"
    /\ IF HaltRequested(cfg, memory)
       THEN pc' = Teardown /\ exit_reason' = "halt"
       ELSE pc' = "progress" /\ exit_reason' = exit_reason
    /\ UNCHANGED <<cfg, scope, main_time, counter, clock, reset,
                   io_memory_bundle_read_data, io_instruction, io_interrupt_flag,
                   data_memory_read_word, inst_memory_read_word, top_out,
                   gotFinish, memory, timer, uart, vga, sdl_events, evals,
                   stdout_inst_diag, stdout_progress, frames, vsync_samples,
                   quit_tick, sentinel_tick, signature_file, call>>

\* lines 511-516: the progress report.  max_sim_time / 100 is 0 for a budget
\* below 100 and the remainder by 0 is undefined: the build either traps
\* (the run faults) or yields a value and the loop goes on.
Progress ==
    /\ pc = "progress"
    /\ LET step == cfg.max_sim_time \div PROGRESS_STEPS
       IN  IF step = 0
           THEN /\ \E trap \in BOOLEAN :
                      IF trap
                      THEN pc' = "fault" /\ exit_reason' = "fault"
                      ELSE pc' = "loop" /\ exit_reason' = exit_reason
                /\ stdout_progress' = stdout_progress
           ELSE /\ pc' = "loop"
                /\ exit_reason' = exit_reason
                /\ stdout_progress' =
                       stdout_progress + (IF main_time % step = 0 THEN 1 ELSE 0)
    /\ UNCHANGED <<cfg, scope, main_time, counter, clock, reset,
                   io_memory_bundle_read_data, io_instruction, io_interrupt_flag,
                   data_memory_read_word, inst_memory_read_word, top_out,
                   gotFinish, memory, timer, uart, vga, sdl_events, evals,
                   stdout_inst_diag, frames, vsync_samples, quit_tick,
                   sentinel_tick, signature_file, call>>

\* the word whose value is the small natural number n
NatToWord(n) ==
    <<n % 256, (n \div 256) % 256, (n \div 65536) % 256, (n \div 16777216) % 256>>

HexDigits == <<"0", "1", "2", "3", "4", "5", "6", "7",
               "8", "9", "a", "b", "c", "d", "e", "f">>

HexDigitsUpper == <<"0", "1", "2", "3", "4", "5", "6", "7",
                    "8", "9", "A", "B", "C", "D", "E", "F">>

\* the format "%08X"
Hex8_upper(w) ==
    << HexDigitsUpper[(w[4] \div 16) + 1], HexDigitsUpper[(w[4] % 16) + 1],
       HexDigitsUpper[(w[3] \div 16) + 1], HexDigitsUpper[(w[3] % 16) + 1],
       HexDigitsUpper[(w[2] \div 16) + 1], HexDigitsUpper[(w[2] % 16) + 1],
       HexDigitsUpper[(w[1] \div 16) + 1], HexDigitsUpper[(w[1] % 16) + 1] >>

\* snprintf(data, 9, "%08x", word): eight digits, most significant first
Hex8(w) ==
    << HexDigits[(w[4] \div 16) + 1], HexDigits[(w[4] % 16) + 1],
       HexDigits[(w[3] \div 16) + 1], HexDigits[(w[3] % 16) + 1],
       HexDigits[(w[2] \div 16) + 1], HexDigits[(w[2] % 16) + 1],
       HexDigits[(w[1] \div 16) + 1], HexDigits[(w[1] % 16) + 1] >>

\* lines 522-526: one line per addr = begin, begin + 4, ... below end
RECURSIVE SignatureLines(_, _, _)
SignatureLines(mem, addr, signature_end) ==
    IF addr < signature_end
    THEN <<Hex8(Memory_read(mem, NatToWord(addr)))>>
         \o SignatureLines(mem, addr + 4, signature_end)
    ELSE <<>>

\* lines 519-527: the signature dump
SignatureDump ==
    /\ pc = "signature"
    /\ signature_file' =
           IF cfg.dump_signature
           THEN SignatureLines(memory, cfg.signature_begin, cfg.signature_end)
           ELSE signature_file
    /\ pc' = "final_render"
    /\ UNCHANGED <<cfg, scope, main_time, counter, clock, reset,
                   io_memory_bundle_read_data, io_instruction, io_interrupt_flag,
                   data_memory_read_word, inst_memory_read_word, top_out,
                   gotFinish, memory, timer, uart, vga, sdl_events, evals,
                   stdout_inst_diag, stdout_progress, frames, vsync_samples,
                   exit_reason, quit_tick, sentinel_tick, call>>

\* lines 529-533: the final render.  render() polls and then presents; a
\* quit event raised while the frame is presented (late) comes after the
\* poll and is still queued when run() returns
FinalRender ==
    /\ pc = "final_render"
    /\ IF cfg.enable_vga
       THEN LET r == VGADisplay_render(vga, sdl_events)
            IN  /\ vga' = r.vga
                /\ frames' = frames + r.presented
                /\ \E late \in BOOLEAN :
                      /\ sdl_events' = late
                      /\ quit_tick' = IF late /\ quit_tick = -1
                                      THEN main_time ELSE quit_tick
       ELSE UNCHANGED <<vga, frames, sdl_events, quit_tick>>
    /\ pc' = "done"
    /\ UNCHANGED <<cfg, scope, main_time, counter, clock, reset,
                   io_memory_bundle_read_data, io_instruction, io_interrupt_flag,
                   data_memory_read_word, inst_memory_read_word, top_out,
                   gotFinish, memory, timer, uart, evals, stdout_inst_diag,
                   stdout_progress, vsync_samples, exit_reason,
                   sentinel_tick, signature_file, call>>

\* the user closes the window or presses ESC: an SDL quit event is queued,
\* during the loop or during the teardown before the final render, any
\* number of times (a poll drains the whole queue, so the queue is kept as
\* whether it holds a quit event); quit_tick is the tick of the first one
UserQuit ==
    /\ cfg.enable_vga
    /\ pc \in {"loop", "eval", "dispatch", "vga", "halt", "progress",
               "signature", "final_render"}
    /\ sdl_events' = TRUE
    /\ quit_tick' = IF quit_tick # -1 THEN quit_tick
                    ELSE IF pc = "loop" THEN main_time + 1 ELSE main_time
    /\ UNCHANGED <<cfg, scope, pc, main_time, counter, clock, reset,
                   io_memory_bundle_read_data, io_instruction, io_interrupt_flag,
                   data_memory_read_word, inst_memory_read_word, top_out,
                   gotFinish, memory, timer, uart, vga, evals, stdout_inst_diag,
                   stdout_progress, frames, vsync_samples, exit_reason,
                   sentinel_tick, signature_file, call>>

NoCall == [op |-> "none"]

\* a run without display
Init ==
    /\ \E b \in Budgets, h \in HaltAddrs : Constructed(Config(b, h, FALSE))
    /\ scope = [menu |-> "full", horizon |-> MaxSimTime]
    /\ memory = Memory_new(MemWords)
    /\ pc = "start"
    /\ call = NoCall

Next ==
    \/ RunStart
    \/ TickBegin
    \/ LoopExit
    \/ Eval
    \/ Dispatch
    \/ VgaStep
    \/ HaltCheck
    \/ Progress
    \/ SignatureDump
    \/ FinalRender

Spec == Init /\ [][Next]_vars

\* a run with the display enabled
InitVga ==
    /\ \E b \in BudgetsVga, h \in HaltAddrs :
          LET c == Config(b, h, TRUE)
          IN  \/ Constructed(c)
              \/ Constructed(WithSignature(c, <<0, 4 * MemWords>>))
    /\ scope = [menu |-> "small", horizon |-> MaxSimTime]
    /\ memory = Memory_new(MemWords)
    /\ pc = "start"
    /\ call = NoCall

NextVga == Next \/ UserQuit

SpecVga == InitVga /\ [][NextVga]_vars

\* a whole run of the smallest budget whose progress step is a tick or more,
\* by a core that only polls and writes the halt word
InitLong ==
    /\ \E h \in HaltAddrs :
          LET c == Config(PROGRESS_STEPS, h, FALSE)
          IN  \/ Constructed(c)
              \/ \E w \in SignatureWindows : Constructed(WithSignature(c, w))
    /\ scope = [menu |-> "halt", horizon |-> PROGRESS_STEPS]
    /\ memory = Memory_new(MemWords)
    /\ pc = "start"
    /\ call = NoCall

SpecLong == InitLong /\ [][Next]_vars

\* tick budgets that are not multiples of 100, below it
BudgetsBelow == {1, MaxSimTime, PROGRESS_STEPS - 1}

\* runs whose budget is below 100, by a core that only polls and writes the
\* halt word
InitBudget ==
    /\ \E b \in BudgetsBelow, h \in HaltAddrs : Constructed(Config(b, h, FALSE))
    /\ scope = [menu |-> "halt", horizon |-> MaxSimTime]
    /\ memory = Memory_new(MemWords)
    /\ pc = "start"
    /\ call = NoCall

SpecBudget == InitBudget /\ [][Next]_vars

\* the first ticks of a 100-tick run of a core that drives the peripherals
InitDev ==
    /\ Constructed(Config(PROGRESS_STEPS, ZeroWord, FALSE))
    /\ scope = [menu |-> "dev", horizon |-> MaxSimTime]
    /\ memory = Memory_new(MemWords)
    /\ pc = "start"
    /\ call = NoCall

SpecDev == InitDev /\ [][Next]_vars

\* the first ticks of a 100-tick run of a core that writes with partial and
\* empty strobes, and drives write data with write-enable low
InitLanes ==
    /\ Constructed(Config(PROGRESS_STEPS, ZeroWord, FALSE))
    /\ scope = [menu |-> "lanes", horizon |-> MaxSimTime]
    /\ memory = Memory_new(MemWords)
    /\ pc = "start"
    /\ call = NoCall

SpecLanes == InitLanes /\ [][Next]_vars

\* the first ticks of a 100-tick run on a memory that holds an image at the
\* load address, by a core that writes the sentinel
InitHalt ==
    /\ \E h \in HaltAddrsLoaded :
          Constructed([Config(PROGRESS_STEPS, h, FALSE) EXCEPT
                          !.memory_words = LoadedMemWords])
    /\ scope = [menu |-> "sentinel", horizon |-> MaxSimTime]
    /\ \E image \in HaltImages :
          LET r == Memory_load_binary(Memory_new(LoadedMemWords), image,
                                      LOAD_ADDRESS)
          IN  ~r.thrown /\ memory = r.memory
    /\ pc = "start"
    /\ call = NoCall

SpecHalt == InitHalt /\ [][Next]_vars

---------------------------------------------------------------------------
(* Unit specifications: one operation applied to a drawn state *)

\* the run is not started: only the objects exist
InitUnit ==
    /\ Constructed(Config(1, ZeroWord, FALSE))
    /\ scope = [menu |-> "none", horizon |-> 0]
    /\ pc = "unit"
    /\ call = NoCall

\* every selector the 3-bit field can hold
DecodeSelectors == 0..((2 ^ DEVICE_SELECT_BITS) - 1)

\* bus addresses: every pattern of the top bits around the region bases
DecodeAddrs ==
    { <<l[1], l[2], l[2], h>> :
        h \in {0, 15, 16, 31, 32, 48, 64, 128, 224, 255},
        l \in {<<0, 0>>, <<4, 0>>, <<255, 255>>} }

\* lines 441-447 and the branch taken by the dispatch chain
Decode ==
    /\ call = NoCall
    /\ \E sel \in DecodeSelectors, addr \in DecodeAddrs :
          LET ea == EffectiveAddress(sel, addr)
          IN  call' = [op |-> "decode", device_select |-> sel, address |-> addr,
                       effective_address |-> ea, is_uart |-> IsUart(ea),
                       is_timer |-> IsTimer(ea), is_vga |-> IsVga(ea),
                       target |-> Target(sel, ea)]
    /\ UNCHANGED <<runVars, memory>>

InitDecode == InitUnit /\ memory = Memory_new(MemWords)

SpecDecode == InitDecode /\ [][Decode]_vars

\* words a memory cell may hold before the operation
MemVals == {ZeroWord, W(17, 34, 51, 68), SENTINEL, W(255, 255, 255, 255)}

\* words written
WriteVals == {ZeroWord, W(170, 187, 204, 221), SENTINEL}

\* byte addresses: aligned and unaligned, the last in range, the first out
\* of range, and far ones
MemAddrs ==
    { ZeroWord, W(0, 0, 0, 4), W(0, 0, 0, 7), W(0, 0, 0, 4 * MemWords - 1),
      W(0, 0, 0, 4 * MemWords), W(0, 0, 1, 0), FarAddr, W(255, 255, 255, 252) }

Strobes == [1..4 -> BOOLEAN]

MemRead ==
    /\ call = NoCall
    /\ \E a \in MemAddrs :
          call' = [op |-> "read", address |-> a, pre |-> memory,
                   ret |-> Memory_read(memory, a), diag |-> FALSE]
    /\ UNCHANGED <<runVars, memory>>

MemReadInst ==
    /\ call = NoCall
    /\ \E a \in MemAddrs :
          LET r == Memory_readInst(memory, a)
          IN  call' = [op |-> "readInst", address |-> a, pre |-> memory,
                       ret |-> r.value, diag |-> r.diag]
    /\ UNCHANGED <<runVars, memory>>

MemWrite ==
    /\ call = NoCall
    /\ \E a \in MemAddrs, v \in WriteVals, m \in Strobes :
          /\ memory' = Memory_write(memory, a, v, m)
          /\ call' = [op |-> "write", address |-> a, value |-> v, strobe |-> m,
                      pre |-> memory, diag |-> FALSE]
    /\ UNCHANGED runVars

InitMem == InitUnit /\ memory \in [0..(MemWords - 1) -> MemVals]

NextMem == MemRead \/ MemReadInst \/ MemWrite

SpecMem == InitMem /\ [][NextMem]_vars

\* displays before the call: the new one, and ones with one pixel painted
PaintedDisplays ==
    {VGADisplay_new}
    \cup { VGADisplay_update_pixel(VGADisplay_new, c, 1, p[1], p[2]) :
              c \in {0, 36, 63}, p \in {<<1, 0>>, <<H_RES - 1, V_RES - 1>>} }

\* every 6-bit colour sample
ColourSamples == 0..63

\* coordinates: inside the frame, its last column and row, and the first
\* column and row outside it
PixelXs == {1, H_RES - 1, H_RES}
PixelYs == {0, V_RES - 1, V_RES}

\* update_pixel(rrggbb, activevideo, x_pos, y_pos)
PixelUpdate ==
    /\ call = NoCall
    /\ \E c \in ColourSamples, a \in {0, 1}, x \in PixelXs, y \in PixelYs :
          /\ vga' = VGADisplay_update_pixel(vga, c, a, x, y)
          /\ call' = [op |-> "update_pixel", rrggbb |-> c, activevideo |-> a,
                      x_pos |-> x, y_pos |-> y, pre |-> vga]
    /\ UNCHANGED <<cfg, scope, pc, main_time, counter, clock, reset,
                   io_memory_bundle_read_data, io_instruction, io_interrupt_flag,
                   data_memory_read_word, inst_memory_read_word, top_out,
                   gotFinish, memory, timer, uart, sdl_events, evals,
                   stdout_inst_diag, stdout_progress, frames, signature_file,
                   vsync_samples, exit_reason, quit_tick, sentinel_tick>>

InitPixel ==
    /\ ConstructedRest(Config(1, ZeroWord, TRUE))
    /\ vga \in PaintedDisplays
    /\ scope = [menu |-> "none", horizon |-> 0]
    /\ memory = Memory_new(MemWords)
    /\ pc = "unit"
    /\ call = NoCall

SpecPixel == InitPixel /\ [][PixelUpdate]_vars

\* byte i (from 0) of the image files: words 0x11111111, 0x22222222, ...
\* (pattern 1) and bytes that all differ within a word (pattern 2)
ImageByte(pattern, i) ==
    IF pattern = 1 THEN 17 * (((i \div 4) % 15) + 1) ELSE (37 * i + 1) % 256

\* image files: every size up to one byte more than the capacity
Images ==
    { [i \in 1..n |-> ImageByte(p, i - 1)] : n \in 0..(4 * LoadWords + 1), p \in {1, 2} }

\* load offsets: aligned and unaligned ones, the last word, the capacity,
\* and the default 0x1000 that Simulator passes
LoadOffsets == {0, 2, 4, 8, 4 * LoadWords - 4, 4 * LoadWords, 4096}

\* memory->load_binary(filename, load_address)
LoadBinary ==
    /\ call = NoCall
    /\ \E image \in Images, o \in LoadOffsets :
          LET r == Memory_load_binary(memory, image, o)
          IN  /\ memory' = r.memory
              /\ call' = [op |-> "load_binary", image |-> image,
                          load_address |-> o, thrown |-> r.thrown,
                          pre |-> memory]
    /\ UNCHANGED runVars

InitLoad ==
    /\ Constructed([Config(1, ZeroWord, FALSE) EXCEPT !.memory_words = LoadWords])
    /\ scope = [menu |-> "none", horizon |-> 0]
    /\ memory \in [0..(LoadWords - 1) -> {ZeroWord, W(17, 34, 51, 68)}]
    /\ pc = "unit"
    /\ call = NoCall

SpecLoad == InitLoad /\ [][LoadBinary]_vars

---------------------------------------------------------------------------
(* fast_rsqrt.c: mul32, on 64-bit values kept as eight bytes, low first *)

\* (uint64_t)a
ToU64(a) == <<a[1], a[2], a[3], a[4], 0, 0, 0, 0>>

\* byte k (from 1) of x, 0 below the first byte
ByteOrZero(x, k) == IF k >= 1 THEN x[k] ELSE 0

\* x << i modulo 2^64, for 0 <= i < 32
Shl64(x, i) ==
    LET q == i \div 8
        r == i % 8
        byte(k) == ((ByteOrZero(x, k - q) * (2 ^ r)) % 256)
                   + (ByteOrZero(x, k - q - 1) \div (2 ^ (8 - r)))
    IN  <<byte(1), byte(2), byte(3), byte(4),
          byte(5), byte(6), byte(7), byte(8)>>

\* the carry into byte k (from 1) of x + y
RECURSIVE CarryInto(_, _, _)
CarryInto(x, y, k) ==
    IF k = 1 THEN 0
    ELSE (x[k - 1] + y[k - 1] + CarryInto(x, y, k - 1)) \div 256

\* x + y modulo 2^64
Add64(x, y) ==
    LET byte(k) == (x[k] + y[k] + CarryInto(x, y, k)) % 256
    IN  <<byte(1), byte(2), byte(3), byte(4),
          byte(5), byte(6), byte(7), byte(8)>>

\* b & (1 << i), as a truth value.  For i = 31 the int 1 << 31 is not
\* representable; the compilers of this code define it as INT_MIN (GCC
\* documents that it does not treat signed << as undefined), which converts
\* to the unsigned 0x80000000, so the test is of bit 31 like the others.
BitSet(b, i) == (b[(i \div 8) + 1] \div (2 ^ (i % 8))) % 2 = 1

\* a loop body that shifts a as a 32-bit value: a << i without the cast
mul32_body_uncast(r, a, b, i) ==
    LET s == Shl64(ToU64(a), i)
    IN  IF BitSet(b, i) THEN Add64(r, <<s[1], s[2], s[3], s[4], 0, 0, 0, 0>>)
        ELSE r

\* r after iteration i of the loop of mul32:
\* if (b & (1 << i)) r += (uint64_t)a << i;
mul32_body(r, a, b, i) ==
    IF BitSet(b, i) THEN Add64(r, Shl64(ToU64(a), i)) ELSE r

\* operands: 0, 1, 3, the test instance 6700 and 65536, and words with
\* bit 31 set
MulOperands ==
    { ZeroWord, W(0, 0, 0, 1), W(0, 0, 0, 3), W(0, 0, 26, 44), W(0, 1, 0, 0),
      W(18, 52, 86, 120), W(127, 255, 255, 255), W(128, 0, 0, 0),
      W(128, 0, 0, 1), W(222, 173, 190, 239), W(255, 255, 0, 0),
      W(255, 255, 255, 255) }

\* mul32(a, b) is entered: uint64_t r = 0; i = 0
mul32_enter ==
    /\ call = NoCall
    /\ \E a \in MulOperands, b \in MulOperands :
          call' = [op |-> "mul32", a |-> a, b |-> b, i |-> 0,
                   r |-> ToU64(ZeroWord)]
    /\ UNCHANGED <<runVars, memory>>

\* one iteration of for (int i = 0; i < 32; i++)
mul32_iterate ==
    /\ call # NoCall
    /\ call.op = "mul32"
    /\ call.i < 32
    /\ call' = [call EXCEPT !.r = mul32_body(call.r, call.a, call.b, call.i),
                            !.i = call.i + 1]
    /\ UNCHANGED <<runVars, memory>>

\* the loop is over: return r
mul32_return ==
    /\ call # NoCall
    /\ call.op = "mul32"
    /\ call.i = 32
    /\ call' = [op |-> "mul32_returned", a |-> call.a, b |-> call.b,
                ret |-> call.r]
    /\ UNCHANGED <<runVars, memory>>

NextMul == mul32_enter \/ mul32_iterate \/ mul32_return

SpecMul == InitDecode /\ [][NextMul]_vars

---------------------------------------------------------------------------
(* Unit specifications of the peripherals and the loader *)

\* UART offsets: the four registers, and two that are not registers
UartOffsets ==
    { ZeroWord, W(0, 0, 0, 4), W(0, 0, 0, 8), W(0, 0, 0, 12), W(0, 0, 0, 16),
      W(0, 0, 0, 20) }

\* values written: zero, a word whose low byte is 'A' with bits above it
\* set, and the sentinel
UartVals == {ZeroWord, W(0, 0, 1, 65), SENTINEL}

\* the writes made to the UART so far, oldest first, as <<offset, value>>
UartHistory == IF call.op \in {"uart_write", "uart_read"} THEN call.history ELSE <<>>

\* uart.write(offset, value)
\* (offset 0x14 stands for the write offsets that are no register)
UartWrite ==
    /\ Len(UartHistory) < MaxUartWrites
    /\ \E off \in UartOffsets \ {ZeroWord}, v \in UartVals :
          /\ uart' = UartMMIO_write(uart, off, v)
          /\ call' = [op |-> "uart_write", offset |-> off, value |-> v,
                      pre |-> uart, ret |-> ZeroWord,
                      history |-> Append(UartHistory, <<off, v>>)]
    /\ UNCHANGED <<cfg, scope, pc, main_time, counter, clock, reset,
                   io_memory_bundle_read_data, io_instruction, io_interrupt_flag,
                   data_memory_read_word, inst_memory_read_word, top_out,
                   gotFinish, memory, timer, vga, sdl_events, evals,
                   stdout_inst_diag, stdout_progress, frames, signature_file,
                   vsync_samples, exit_reason, quit_tick, sentinel_tick>>

\* uart.read(offset)
UartRead ==
    /\ \E off \in UartOffsets :
          call' = [op |-> "uart_read", offset |-> off, value |-> ZeroWord,
                   pre |-> uart, ret |-> UartMMIO_read(uart, off),
                   history |-> UartHistory]
    /\ UNCHANGED <<runVars, memory>>

NextUart == UartWrite \/ UartRead

SpecUart == InitDecode /\ [][NextUart]_vars

---------------------------------------------------------------------------
(* Claims *)

\* the regions that claim the decoded transaction
Claimants(c) ==
    (IF c.device_select = 0 THEN {"memory"} ELSE {})
    \cup (IF c.is_uart THEN {"uart"} ELSE {})
    \cup (IF c.is_timer THEN {"timer"} ELSE {})
    \cup (IF c.is_vga THEN {"vga"} ELSE {})

\* C1: for every selector and low address the effective address is
\* (selector << 29) | (address & 0x1FFFFFFF); at most one of Word Memory,
\* UART, Timer and the video region claims it; the dispatch target is that
\* one region (or none); selector 0 is routed to Word Memory and never
\* matches a peripheral region.
C1_DecodeOneTarget ==
    call.op = "decode" =>
        /\ call.effective_address[4] \div 32 = call.device_select
        /\ call.effective_address[4] % 32 = call.address[4] % 32
        /\ \A i \in 1..3 : call.effective_address[i] = call.address[i]
        /\ Cardinality(Claimants(call)) <= 1
        /\ Claimants(call) = (IF call.target = "none" THEN {} ELSE {call.target})
        /\ call.device_select = 0 => call.target = "memory"

\* selector 0 with address bit 28 set: the effective address 0x1....... is
\* one nibble away from the video region and is still Word Memory
C1_Witness ==
    /\ call.op = "decode"
    /\ call.device_select = 0
    /\ call.address[4] = 255
    /\ call.target = "memory"

\* C2: after write(addr, v, m) within capacity, read(addr) returns the word
\* whose byte i is byte i of v when m[i] holds and byte i of the prior word
\* otherwise (so the all-false mask changes nothing), and every other word
\* is unchanged.
C2_WriteReadLanes ==
    (call.op = "write" /\ WDiv4(call.address) < MemWords) =>
        /\ \A i \in 1..4 :
              Memory_read(memory, call.address)[i] =
                 IF call.strobe[i] THEN call.value[i]
                 ELSE call.pre[WDiv4(call.address)][i]
        /\ call.strobe = NoStrobes => memory = call.pre
        /\ \A j \in 0..(MemWords - 1) :
              j # WDiv4(call.address) => memory[j] = call.pre[j]

\* lanes 0 and 2 written over a word that differs from the value in every byte
C2_Witness ==
    /\ call.op = "write"
    /\ call.address = W(0, 0, 0, 7)
    /\ call.strobe = <<TRUE, FALSE, TRUE, FALSE>>
    /\ call.value = W(170, 187, 204, 221)
    /\ call.pre[1] = W(17, 34, 51, 68)
    /\ memory[1] = W(17, 187, 51, 221)

\* C3: at a byte address whose word index is at or beyond the capacity,
\* read returns 0 and write is dropped; memory and its capacity are unchanged.
C3_OutOfRangeTolerated ==
    (call.op \in {"read", "write"} /\ WDiv4(call.address) >= MemWords) =>
        /\ memory = call.pre
        /\ MemSize(memory) = MemWords
        /\ call.op = "read" => call.ret = ZeroWord
        /\ ~call.diag

\* a full-word write of a non-zero value at the first address out of range,
\* over a memory that holds no zero word
C3_Witness ==
    /\ call.op = "write"
    /\ call.address = W(0, 0, 0, 4 * MemWords)
    /\ call.strobe = AllStrobes
    /\ call.value = SENTINEL
    /\ \A j \in 0..(MemWords - 1) : memory[j] = W(255, 255, 255, 255)

\* C4: in the dispatch of a tick, an instruction fetch out of range latches
\* 0 and prints one diagnostic line, a fetch in range latches the stored
\* word and prints none; the fetch leaves memory as the tick's write (if any)
\* left it, does not end the loop, and the latched word is the instruction
\* input of the next tick.
C4_InstFetch ==
    /\ [][pc = "dispatch" =>
            /\ pc' = "vga"
            /\ exit_reason' = exit_reason
            /\ ~top_out.io_memory_bundle_write_enable => memory' = memory
            /\ IF WDiv4(top_out.io_instruction_address) >= cfg.memory_words
               THEN /\ inst_memory_read_word' = ZeroWord
                    /\ stdout_inst_diag' = stdout_inst_diag + 1
               ELSE /\ inst_memory_read_word' =
                          memory'[WDiv4(top_out.io_instruction_address)]
                    /\ stdout_inst_diag' = stdout_inst_diag]_vars
    /\ [][(pc = "loop" /\ pc' = "eval") =>
            io_instruction' = inst_memory_read_word]_vars

\* tick 2 of a 100-tick run is evaluated with the zero word of an
\* out-of-range fetch made at tick 1, which printed the diagnostic
C4_Witness ==
    /\ pc = "dispatch"
    /\ main_time = 2
    /\ cfg.max_sim_time = PROGRESS_STEPS
    /\ stdout_inst_diag = 1
    /\ io_instruction = ZeroWord
    /\ memory[1] = SENTINEL

\* the loop has been left, or the fault has ended the run
Terminated == pc \in {"signature", "final_render", "done", "fault"}

\* C5 as stated: once a dispatched write has made the halt word the
\* sentinel at tick t, the driver terminates no later than tick t+1 and the
\* tick counter at termination is strictly less than the tick budget.
C5_Original ==
    (sentinel_tick # 0 /\ Terminated) =>
        /\ main_time <= sentinel_tick + 1
        /\ main_time < cfg.max_sim_time

\* C5 amended: once a dispatched write has made the halt word the sentinel
\* at tick t, no later tick begins: the loop is left in tick t itself, by
\* the halt check, with the tick counter equal to t, which is at most the
\* budget.
C5_HaltSameTick ==
    sentinel_tick # 0 =>
        /\ main_time = sentinel_tick
        /\ main_time <= cfg.max_sim_time
        /\ pc \in {"vga", "halt", "signature", "final_render", "done"}
        /\ Terminated => exit_reason = "halt"

\* the sentinel is completed by a write in the very last tick of the budget
C5_Witness ==
    /\ pc = "done"
    /\ exit_reason = "halt"
    /\ sentinel_tick = cfg.max_sim_time
    /\ main_time = PROGRESS_STEPS
    /\ memory[1] = SENTINEL

\* a termination condition has ended the loop: a break was taken, or the
\* loop condition fails at the loop head
Ended ==
    \/ exit_reason # "none"
    \/ Terminated
    \/ pc = "loop" /\ (main_time >= cfg.max_sim_time \/ gotFinish)

\* C6: the core is evaluated exactly once in every tick (the evaluations
\* made by the loop number the ticks begun, less the one not yet evaluated),
\* and termination is absorbing: once the budget is exhausted, the core has
\* finished, the halt sentinel was seen or quit was requested, there is no
\* further evaluation, dispatch or tick.
C6_EvalOnceAbsorbing ==
    /\ [](pc # "unit" =>
            evals = (IF pc = "eval" THEN main_time - 1 ELSE main_time))
    /\ [][Ended =>
            /\ Ended'
            /\ evals' = evals
            /\ main_time' = main_time
            /\ UNCHANGED <<memory, uart, timer, top_out, data_memory_read_word,
                           inst_memory_read_word>>]_vars

\* the run ended by the core's $finish at tick 2, after two evaluations,
\* with budget left
C6_Witness ==
    /\ pc = "done"
    /\ exit_reason = "finish"
    /\ gotFinish
    /\ evals = 2
    /\ main_time = 2
    /\ cfg.max_sim_time = PROGRESS_STEPS

\* C7 as stated: with the display enabled, a quit request raised during
\* tick t ends the loop by the end of tick t+1, so tick t+2 never begins.
C7_QuitLatency ==
    (cfg.enable_vga /\ quit_tick # -1) =>
        ~(pc = "eval" /\ main_time >= quit_tick + 2)

\* the falling edges (previous sample high, current sample low) of a
\* sequence of samples
FallingEdges(s) == Cardinality({i \in 2..Len(s) : s[i - 1] /\ ~s[i]})

\* C8 as stated: the frames handed to the display sink number the falling
\* edges of the vsync samples of the session.
C8_Original == frames = FallingEdges(vsync_samples)

\* C8 amended: the detector starts high, so a first sample that is low
\* counts as a falling edge; the frames handed over during the loop number
\* the falling edges of the samples so far, and teardown hands over exactly
\* one more frame, without an edge.
C8_FramesPerEdge ==
    frames = FallingEdges(<<TRUE>> \o vsync_samples)
             + (IF pc = "done" /\ cfg.enable_vga THEN 1 ELSE 0)

\* low, high, low: two hand-offs in the loop and the final one
C8_Witness ==
    /\ pc = "done"
    /\ vsync_samples = <<FALSE, TRUE, FALSE>>
    /\ frames = 3

\* C9: reset is asserted at the evaluations of ticks 1 and 2, deasserted at
\* the evaluation of every later tick, and never reasserted.
C9_ResetWindow ==
    /\ [](pc \in {"eval", "dispatch"} =>
            reset = (IF main_time <= 2 THEN 1 ELSE 0))
    /\ [][(main_time >= 1 /\ reset = 0) => reset' = 0]_vars

\* the core has just been evaluated at tick 4 of a 100-tick run, reset low
C9_Witness ==
    /\ pc = "dispatch"
    /\ main_time = 4
    /\ reset = 0
    /\ cfg.max_sim_time = PROGRESS_STEPS

\* C10: the inputs presented at tick 1 are 0; at every later tick the data
\* input is the result of the read the previous tick dispatched for the
\* selector and address the core showed then, and the instruction input is
\* the result of that tick's fetch.
C10_ReadLatency ==
    pc = "eval" =>
        IF main_time = 1
        THEN io_memory_bundle_read_data = ZeroWord /\ io_instruction = ZeroWord
        ELSE /\ io_memory_bundle_read_data =
                   DispatchRead(top_out, memory, uart, timer)
             /\ io_instruction =
                   Memory_readInst(memory, top_out.io_instruction_address).value

\* tick 3 is about to be evaluated with the UART baud rate read at tick 2
\* and the sentinel fetched from word 1
C10_Witness ==
    /\ pc = "eval"
    /\ main_time = 3
    /\ cfg.max_sim_time = PROGRESS_STEPS
    /\ top_out.io_deviceSelect = 2
    /\ io_memory_bundle_read_data = W(0, 1, 194, 0)
    /\ io_instruction = SENTINEL

\* byte i of the word a write of value v under strobes m leaves over old
Lane(old, v, m, i) == IF m[i] THEN v[i] ELSE old[i]

\* C11: in a tick whose write-enable is asserted the write is applied before
\* the reads of that tick: for a write to a Word Memory word within capacity
\* the data read latched in the same tick, and an instruction fetch of the
\* same word in the same tick, hold the written bytes in the strobed lanes
\* and the prior bytes elsewhere; for a write of the Timer limit the data
\* read latched in the same tick is the written value.
C11_WriteBeforeRead ==
    [][(pc = "dispatch" /\ top_out.io_memory_bundle_write_enable) =>
          LET ea == EffectiveAddress(top_out.io_deviceSelect,
                                     top_out.io_memory_bundle_address)
              tgt == Target(top_out.io_deviceSelect, ea)
              idx == WDiv4(ea)
              v == top_out.io_memory_bundle_write_data
              m == top_out.io_memory_bundle_write_strobe
          IN  /\ (tgt = "memory" /\ idx < cfg.memory_words) =>
                    /\ \A i \in 1..4 :
                          data_memory_read_word'[i] = Lane(memory[idx], v, m, i)
                    /\ WDiv4(top_out.io_instruction_address) = idx =>
                          \A i \in 1..4 :
                             inst_memory_read_word'[i] = Lane(memory[idx], v, m, i)
              /\ (tgt = "timer" /\ WSub(ea, TIMER_BASE) = W(0, 0, 0, 4)) =>
                    data_memory_read_word' = v]_vars

\* the low half of the sentinel was written over the zero word 1 at tick 2
\* while word 1 was being fetched: both latched words hold the new low half
C11_Witness ==
    /\ pc = "vga"
    /\ main_time = 2
    /\ cfg.max_sim_time = PROGRESS_STEPS
    /\ top_out.io_memory_bundle_write_enable
    /\ top_out.io_deviceSelect = 0
    /\ top_out.io_memory_bundle_write_strobe = LowHalf
    /\ top_out.io_instruction_address = W(0, 0, 0, 4)
    /\ data_memory_read_word = W(0, 0, 202, 254)
    /\ inst_memory_read_word = W(0, 0, 202, 254)

\* the enable flag after the writes h, starting from en
RECURSIVE EnabledAfter(_, _)
EnabledAfter(h, en) ==
    IF h = <<>> THEN en
    ELSE EnabledAfter(Tail(h), IF Head(h)[1] = W(0, 0, 0, 8)
                               THEN Head(h)[2] # ZeroWord ELSE en)

\* the bytes emitted by the writes h, starting with the enable flag en
RECURSIVE EmittedBy(_, _)
EmittedBy(h, en) ==
    IF h = <<>> THEN <<>>
    ELSE LET off == Head(h)[1]
             v == Head(h)[2]
         IN  (IF off = W(0, 0, 0, 16) /\ en THEN <<v[1]>> ELSE <<>>)
             \o EmittedBy(Tail(h), EnabledAfter(<<Head(h)>>, en))

\* C12: after any sequence of UART writes the output stream is, in order,
\* the low byte of each write to offset 0x10 made while the enable flag was
\* set; the flag starts clear and is set iff the last write to offset 0x8
\* was non-zero; a transmit write while disabled changes no UART state.
C12_UartStream ==
    call.op \in {"uart_write", "uart_read"} =>
        /\ uart.tx_log = EmittedBy(call.history, FALSE)
        /\ uart.enabled = EnabledAfter(call.history, FALSE)
        /\ (call.op = "uart_write" /\ call.offset = W(0, 0, 0, 16)
                /\ ~call.pre.enabled) => uart = call.pre

\* a byte written while disabled is dropped; after the enable write the low
\* byte 0x41 of 0x00000141 is emitted
C12_Witness ==
    /\ call.op = "uart_write"
    /\ call.history = << <<W(0, 0, 0, 16), SENTINEL>>,
                         <<W(0, 0, 0, 8), SENTINEL>>,
                         <<W(0, 0, 0, 16), W(0, 0, 1, 65)>> >>
    /\ uart.tx_log = <<65>>

\* the baud rate after the writes h, starting from b
RECURSIVE BaudAfter(_, _)
BaudAfter(h, b) ==
    IF h = <<>> THEN b
    ELSE BaudAfter(Tail(h), IF Head(h)[1] = W(0, 0, 0, 4) THEN Head(h)[2] ELSE b)

\* C13 as stated: after any sequence of UART writes a read at offset 0xC
\* returns the fixed placeholder, a read at every other offset (0x4, 0x8 and
\* 0x10 included) returns 0, and reads never change UART state.
C13_Original ==
    call.op = "uart_read" =>
        /\ call.ret = ZeroWord
        /\ uart = call.pre

\* C13 amended: a read at offset 0x4 returns the stored baud rate (115200
\* until offset 0x4 is written, then the value last written to it); a read
\* at offset 0xC returns the fixed placeholder 0; a read at every other
\* offset returns 0; reads never change UART state.
C13_UartReads ==
    call.op = "uart_read" =>
        /\ call.ret = (IF call.offset = W(0, 0, 0, 4)
                       THEN BaudAfter(call.history, W(0, 1, 194, 0))
                       ELSE ZeroWord)
        /\ uart = call.pre

\* the baud rate written as the sentinel is read back at offset 0x4 after
\* an enabled transmit
C13_Witness ==
    /\ call.op = "uart_read"
    /\ call.offset = W(0, 0, 0, 4)
    /\ call.ret = SENTINEL
    /\ uart.tx_log = <<65>>

\* the effective address of the transaction being dispatched
BusEa == EffectiveAddress(top_out.io_deviceSelect, top_out.io_memory_bundle_address)

\* the dispatch target of the transaction being dispatched
BusTarget == Target(top_out.io_deviceSelect, BusEa)

\* this step dispatches a write to the Timer register at offset off
TimerWriteAt(off) ==
    /\ pc = "dispatch"
    /\ top_out.io_memory_bundle_write_enable
    /\ BusTarget = "timer"
    /\ WSub(BusEa, TIMER_BASE) = off

\* C14: the Timer is a pure store.  Both registers are 0 until written; a
\* step changes the limit only by a dispatched write to offset 0x4, to the
\* value written, and the enable flag only by a dispatched write to offset
\* 0x8, to whether the value was non-zero; a read of offset 0x4 latches the
\* limit and a read of offset 0x8 latches 1 or 0 as the flag is set or not;
\* the interrupt input of the core is 0 throughout.
C14_TimerStore ==
    /\ [](io_interrupt_flag = 0)
    /\ [](main_time = 0 => timer = [limit |-> ZeroWord, enabled |-> FALSE])
    /\ [][/\ timer'.limit = IF TimerWriteAt(W(0, 0, 0, 4))
                             THEN top_out.io_memory_bundle_write_data
                             ELSE timer.limit
          /\ timer'.enabled = IF TimerWriteAt(W(0, 0, 0, 8))
                               THEN top_out.io_memory_bundle_write_data # ZeroWord
                               ELSE timer.enabled]_vars
    /\ [][(pc = "dispatch" /\ BusTarget = "timer") =>
            /\ WSub(BusEa, TIMER_BASE) = W(0, 0, 0, 4) =>
                  data_memory_read_word' = timer'.limit
            /\ WSub(BusEa, TIMER_BASE) = W(0, 0, 0, 8) =>
                  data_memory_read_word' =
                     (IF timer'.enabled THEN W(0, 0, 0, 1) ELSE ZeroWord)]_vars

\* tick 3: the enable offset reads 1 after the limit and the flag were
\* written at ticks 1 and 2, and the interrupt input is 0
C14_Witness ==
    /\ pc = "vga"
    /\ main_time = 3
    /\ timer = [limit |-> SENTINEL, enabled |-> TRUE]
    /\ ~top_out.io_memory_bundle_write_enable
    /\ top_out.io_deviceSelect = 4
    /\ top_out.io_memory_bundle_address = W(0, 0, 0, 8)
    /\ data_memory_read_word = W(0, 0, 0, 1)
    /\ io_interrupt_flag = 0

\* the transaction being dispatched has a non-zero selector and is claimed
\* by the video region or by no region, or addresses a UART or Timer offset
\* that is no register
Unhandled ==
    LET off == IF BusTarget = "uart" THEN WSub(BusEa, UART_BASE)
               ELSE WSub(BusEa, TIMER_BASE)
    IN  \/ BusTarget \in {"vga", "none"}
        \/ BusTarget = "uart"
              /\ off \notin {W(0, 0, 0, 4), W(0, 0, 0, 8), W(0, 0, 0, 12),
                              W(0, 0, 0, 16)}
        \/ BusTarget = "timer" /\ off \notin {W(0, 0, 0, 4), W(0, 0, 0, 8)}

\* C15: the dispatch of a transaction with a non-zero selector whose
\* effective address is in the video region or in no region, or of a UART or
\* Timer access at an offset that is no register, latches the read result 0
\* and leaves Word Memory, the UART (output stream included) and the Timer
\* unchanged, write-enable asserted or not.
C15_UnhandledDiscarded ==
    [][(pc = "dispatch" /\ Unhandled) =>
          /\ top_out.io_deviceSelect # 0
          /\ data_memory_read_word' = ZeroWord
          /\ memory' = memory
          /\ uart' = uart
          /\ timer' = timer]_vars

\* tick 3: a write of the sentinel with selector 5 and low address 4 left
\* the zero word 1 of memory and the Timer written earlier as they were
C15_Witness ==
    /\ pc = "vga"
    /\ main_time = 3
    /\ top_out.io_memory_bundle_write_enable
    /\ top_out.io_deviceSelect = 5
    /\ timer = [limit |-> SENTINEL, enabled |-> TRUE]
    /\ memory[1] = ZeroWord
    /\ data_memory_read_word = ZeroWord

\* the lookup table of the 2-bit to 8-bit expansion
Expansion == <<0, 85, 170, 255>>

\* C16: for every 6-bit colour sample and every in-range (x, y) with active
\* video asserted, update_pixel stores at (x, y) the pixel whose blue, green
\* and red bytes are the expansions {0->0, 1->85, 2->170, 3->255} of bits
\* 1:0, 3:2 and 5:4 of the sample, each channel from its own field alone,
\* with alpha 255.
C16_ColourExpansion ==
    (call.op = "update_pixel" /\ call.activevideo # 0
        /\ call.x_pos < 640 /\ call.y_pos < 480) =>
        PixelAt(vga.framebuffer, call.y_pos * 640 + call.x_pos) =
           << Expansion[(call.rrggbb % 4) + 1],
              Expansion[((call.rrggbb \div 4) % 4) + 1],
              Expansion[((call.rrggbb \div 16) % 4) + 1],
              255 >>

\* the sample 0b011011 (R = 1, G = 2, B = 3) stored at the last pixel of
\* the frame, over white
C16_Witness ==
    /\ call.op = "update_pixel"
    /\ call.rrggbb = 27
    /\ call.x_pos = 639 /\ call.y_pos = 479
    /\ PixelAt(call.pre.framebuffer, 479 * 640 + 639) = <<255, 255, 255, 255>>
    /\ PixelAt(vga.framebuffer, 479 * 640 + 639) = <<255, 170, 85, 255>>

\* the pixel of the colour sample c, as <<B, G, R, A>>
SamplePixel(c) ==
    << Expansion[(c % 4) + 1], Expansion[((c \div 4) % 4) + 1],
       Expansion[((c \div 16) % 4) + 1], 255 >>

\* C17: the frame is only ever overwritten.  A step changes it only in the
\* display block of a tick whose sample has active video asserted and
\* x < 640 and y < 480, and then only at the pixel (x, y), which takes the
\* value of the sample; every other step, a vsync hand-off in the same
\* display block and the final hand-off included, leaves every pixel as it
\* was.
C17_FrameOverwritten ==
    [][LET fb == vga.framebuffer
           fbn == vga'.framebuffer
           idx == top_out.io_vga_y_pos * 640 + top_out.io_vga_x_pos
       IN  IF /\ pc = "vga" /\ pc' # "vga"
              /\ cfg.enable_vga
              /\ top_out.io_vga_activevideo # 0
              /\ top_out.io_vga_x_pos < 640
              /\ top_out.io_vga_y_pos < 480
           THEN /\ PixelAt(fbn, idx) = SamplePixel(top_out.io_vga_rrggbb)
                /\ \A i \in (DOMAIN fb \cup DOMAIN fbn) \ {idx} :
                      PixelAt(fbn, i) = PixelAt(fb, i)
           ELSE fbn = fb]_vars

\* after three ticks and two hand-offs, the last of them in this tick, pixel
\* (1, 0) holds the second sample written to it, and the active sample of
\* this tick at x = 640 has changed nothing
C17_Witness ==
    /\ pc = "halt"
    /\ main_time = 3
    /\ vsync_samples = <<FALSE, TRUE, FALSE>>
    /\ frames = 2
    /\ top_out.io_vga_activevideo = 1
    /\ top_out.io_vga_x_pos = 640
    /\ DOMAIN vga.framebuffer = {1}
    /\ PixelAt(vga.framebuffer, 1) = <<0, 85, 170, 255>>

\* the sixteen lowercase hexadecimal digits
LowerHex ==
    {"0", "1", "2", "3", "4", "5", "6", "7", "8", "9", "a", "b", "c", "d", "e", "f"}

\* the value of a lowercase hexadecimal digit
DigitValue(d) ==
    CASE d = "0" -> 0 [] d = "1" -> 1 [] d = "2" -> 2 [] d = "3" -> 3
      [] d = "4" -> 4 [] d = "5" -> 5 [] d = "6" -> 6 [] d = "7" -> 7
      [] d = "8" -> 8 [] d = "9" -> 9 [] d = "a" -> 10 [] d = "b" -> 11
      [] d = "c" -> 12 [] d = "d" -> 13 [] d = "e" -> 14 [] d = "f" -> 15

\* the word denoted by a line of eight digits, most significant first
LineWord(line) ==
    << 16 * DigitValue(line[7]) + DigitValue(line[8]),
       16 * DigitValue(line[5]) + DigitValue(line[6]),
       16 * DigitValue(line[3]) + DigitValue(line[4]),
       16 * DigitValue(line[1]) + DigitValue(line[2]) >>

\* the word of memory that holds byte address a, 0 beyond the capacity
WordHolding(a) == IF a \div 4 < cfg.memory_words THEN memory[a \div 4] ELSE ZeroWord

\* line k (from 0) of the signature file is the word holding byte address
\* begin + 4k, as exactly eight lowercase hexadecimal digits
LinesWellFormed ==
    \A k \in 0..(Len(signature_file) - 1) :
       LET line == signature_file[k + 1]
       IN  /\ Len(line) = 8
           /\ \A j \in 1..8 : line[j] \in LowerHex
           /\ LineWord(line) = WordHolding(cfg.signature_begin + 4 * k)

\* the signature dump, if configured, has been made
Dumped == pc \in {"final_render", "done"} /\ cfg.dump_signature

\* C18 as stated: for every configured window [begin, end) the signature
\* file has exactly (end - begin) / 4 lines, and line k is the word at byte
\* address begin + 4k as exactly 8 lowercase hexadecimal digits.
C18_Original ==
    Dumped =>
        /\ Len(signature_file) = (cfg.signature_end - cfg.signature_begin) \div 4
        /\ LinesWellFormed

\* C18 amended: the file has one line for each address begin, begin + 4,
\* ... below end: none when end <= begin, and otherwise (end - begin) / 4
\* rounded up, a window that ends inside a word including that word;
\* line k is the word holding byte address begin + 4k (0 beyond the
\* capacity) as exactly 8 lowercase hexadecimal digits.
C18_SignatureLines ==
    Dumped =>
        /\ Len(signature_file) =
              (IF cfg.signature_end <= cfg.signature_begin THEN 0
               ELSE (cfg.signature_end - cfg.signature_begin + 3) \div 4)
        /\ LinesWellFormed

\* the window [0, 6) dumped after the low half of the sentinel was written
\* to word 1: two lines, the second for the word the window ends in
C18_Witness ==
    /\ pc = "done"
    /\ cfg.dump_signature
    /\ cfg.signature_begin = 0 /\ cfg.signature_end = 6
    /\ signature_file = << <<"0", "0", "0", "0", "0", "0", "0", "0">>,
                           <<"0", "0", "0", "0", "c", "a", "f", "e">> >>

\* the teardown of run(): the signature dump and the final render
InTeardown == pc \in {"signature", "final_render", "done"}

\* C19: whichever of the halt sentinel, the tick budget, the core's finish
\* and the display quit request ends the loop, the teardown runs: control is
\* in the teardown and goes through it to the end, never back (a quit
\* event that arrives meanwhile is only queued); no tick, evaluation or
\* memory change follows; the signature file is written in one step only,
\* the dump, which is taken once, and when configured it holds the window of
\* the memory as the last dispatch left it; and the final frame is handed
\* over when the display is enabled.
C19_TeardownRuns ==
    /\ [](exit_reason \in {"halt", "budget", "finish", "quit"} => InTeardown)
    /\ [](pc \in {"signature", "final_render"} =>
            ENABLED (SignatureDump \/ FinalRender))
    /\ [](Dumped =>
            /\ Len(signature_file) =
                  (cfg.signature_end - cfg.signature_begin + 3) \div 4
            /\ LinesWellFormed)
    /\ [](pc = "done" /\ cfg.enable_vga => frames >= 1)
    /\ [][/\ InTeardown =>
               /\ pc' \in {"final_render", "done"} \/ pc' = pc
               /\ UNCHANGED <<main_time, evals, memory, exit_reason>>
          /\ (InTeardown /\ pc' = pc) =>
               UNCHANGED <<vga, frames, signature_file>>
          /\ signature_file' # signature_file =>
               pc = "signature" /\ cfg.dump_signature
          /\ (pc = "final_render" /\ pc' = "done" /\ cfg.enable_vga) =>
               frames' = frames + 1]_vars

\* a quit request ended the loop in tick 2, in which the sentinel was
\* written to word 1: the dump holds that word, and two frames were handed
\* over, one at the falling edge that polled the request and the final one
C19_Witness ==
    /\ pc = "done"
    /\ exit_reason = "quit"
    /\ main_time = 2
    /\ cfg.max_sim_time = PROGRESS_STEPS
    /\ top_out.io_memory_bundle_write_enable
    /\ vsync_samples = <<TRUE, FALSE>>
    /\ frames = 2
    /\ Len(signature_file) = MemWords
    /\ signature_file[1] = <<"0", "0", "0", "0", "0", "0", "0", "0">>
    /\ signature_file[2] = <<"b", "a", "b", "e", "c", "a", "f", "e">>

\* C20: loading an image of N bytes at byte offset o into a memory of C
\* words: if o + N > 4C the load is rejected with an error and no word is
\* modified; otherwise, for every k < N/4, a data read at o + 4k returns
\* word k of the image, every word outside the loaded range is unchanged,
\* and the word just past the capacity reads 0.
C20_LoadImage ==
    call.op = "load_binary" =>
        LET o == call.load_address
            n == Len(call.image)
        IN  IF o + n > 4 * LoadWords
            THEN call.thrown /\ memory = call.pre
            ELSE /\ ~call.thrown
                 /\ \A k \in 0..((n \div 4) - 1), b \in 1..4 :
                       Memory_read(memory, NatToWord(o + 4 * k))[b] =
                          call.image[4 * k + b]
                 /\ \A j \in 0..(LoadWords - 1) :
                       (j < o \div 4 \/ j >= (o \div 4) + (n \div 4)) =>
                          memory[j] = call.pre[j]
                 /\ Memory_read(memory, NatToWord(4 * LoadWords)) = ZeroWord

\* the image of the words 0x11111111 ... filling the whole memory from
\* offset 0, over a memory that held another word everywhere
C20_Witness ==
    /\ call.op = "load_binary"
    /\ call.load_address = 0
    /\ Len(call.image) = 4 * LoadWords
    /\ ~call.thrown
    /\ \A j \in 0..(LoadWords - 1) : call.pre[j] = W(17, 34, 51, 68)
    /\ memory[0] = W(17, 17, 17, 17)
    /\ memory[1] = W(34, 34, 34, 34)
    /\ memory[LoadWords - 1] = <<17 * LoadWords, 17 * LoadWords, 17 * LoadWords,
                                 17 * LoadWords>>

\* C21 as stated: for every tick budget B >= 1 and every behaviour of the
\* core, the tick counter never exceeds B and the driver does not fault:
\* every tick that does not terminate early completes its progress step.
C21_BudgetNoFault ==
    /\ main_time <= cfg.max_sim_time
    /\ pc # "fault"
    /\ exit_reason # "fault"

\* the sum of the byte products a[j] * b[k] of weight 256^n (j + k = n,
\* bytes counted from 0)
Column(a, b, n) ==
    LET js == {j \in 0..3 : n - j \in 0..3}
        term[j \in 0..4] ==
            IF j = 4 THEN 0
            ELSE (IF j \in js THEN a[j + 1] * b[n - j + 1] ELSE 0) + term[j + 1]
    IN  term[0]

\* the carry out of the columns below n of the long multiplication
RECURSIVE ColumnCarry(_, _, _)
ColumnCarry(a, b, n) ==
    IF n = 0 THEN 0
    ELSE (Column(a, b, n - 1) + ColumnCarry(a, b, n - 1)) \div 256

\* the product a * b by long multiplication on bytes, as eight bytes
LongProduct(a, b) ==
    LET byte(k) == (Column(a, b, k - 1) + ColumnCarry(a, b, k - 1)) % 256
    IN  <<byte(1), byte(2), byte(3), byte(4),
          byte(5), byte(6), byte(7), byte(8)>>

\* C22: mul32(a, b) is the full 64-bit product a * b, nothing truncated,
\* for every pair of the operands explored, which include words with bit 31
\* set; and mul32(65536, 6700) is 439091200 (0x1A2C0000).
C22_Mul32Product ==
    (call # NoCall /\ call.op = "mul32_returned") =>
        /\ call.ret = LongProduct(call.a, call.b)
        /\ (call.a = W(0, 1, 0, 0) /\ call.b = W(0, 0, 26, 44)) =>
              call.ret = <<0, 0, 44, 26, 0, 0, 0, 0>>

\* 0xFFFFFFFF * 0xFFFFFFFF = 0xFFFFFFFE00000001: both operands have bit 31
\* set and the product fills the high word
C22_Witness ==
    /\ call # NoCall
    /\ call.op = "mul32_returned"
    /\ call.a = W(255, 255, 255, 255)
    /\ call.b = W(255, 255, 255, 255)
    /\ call.ret = <<1, 0, 0, 0, 254, 255, 255, 255>>

\* this step is the dispatch of the transaction on the core's outputs
Dispatching == pc = "dispatch" /\ pc' # "dispatch"

\* C23: a step changes Word Memory, the UART (registers and output stream)
\* or the Timer only if it is the dispatch of a tick whose write-enable is
\* asserted, and then it changes at most the store the decoder selects:
\* the other two, and all three for the video region or no region, are
\* left as they were.
C23_FrameEffect ==
    [][ /\ (~Dispatching \/ ~top_out.io_memory_bundle_write_enable) =>
              UNCHANGED <<memory, uart, timer>>
        /\ (Dispatching /\ top_out.io_memory_bundle_write_enable) =>
              /\ BusTarget # "memory" => memory' = memory
              /\ BusTarget # "uart" => uart' = uart
              /\ BusTarget # "timer" => timer' = timer ]_vars

\* a Timer limit write has just been dispatched: the limit holds the data,
\* Word Memory and the UART are as constructed
C23_Witness ==
    /\ pc = "vga"
    /\ top_out.io_memory_bundle_write_enable
    /\ BusTarget = "timer"
    /\ timer.limit = SENTINEL
    /\ memory = Memory_new(MemWords)
    /\ uart = UartMMIO_new

\* C24: the strobes apply only to Word Memory.  A write dispatched to the
\* UART or the Timer takes the whole data word whatever the strobes are:
\* the baud rate and the limit become the data word, the enable flags
\* become data # 0, and a transmit write, the UART being enabled, appends
\* the low data byte to the output stream; a write dispatched to Word
\* Memory with no strobe set changes nothing.
C24_StrobesMemoryOnly ==
    [][ (Dispatching /\ top_out.io_memory_bundle_write_enable) =>
          LET data == top_out.io_memory_bundle_write_data
              uoff == WSub(BusEa, UART_BASE)
              toff == WSub(BusEa, TIMER_BASE)
          IN  /\ (BusTarget = "uart" /\ uoff = W(0, 0, 0, 4)) =>
                    uart'.baudrate = data
              /\ (BusTarget = "uart" /\ uoff = W(0, 0, 0, 8)) =>
                    uart'.enabled = (data # ZeroWord)
              /\ (BusTarget = "uart" /\ uoff = W(0, 0, 0, 16)) =>
                    uart'.tx_log = IF uart.enabled
                                   THEN Append(uart.tx_log, data[1])
                                   ELSE uart.tx_log
              /\ (BusTarget = "timer" /\ toff = W(0, 0, 0, 4)) =>
                    timer'.limit = data
              /\ (BusTarget = "timer" /\ toff = W(0, 0, 0, 8)) =>
                    timer'.enabled = (data # ZeroWord)
              /\ (BusTarget = "memory"
                    /\ top_out.io_memory_bundle_write_strobe = NoStrobes) =>
                    memory' = memory ]_vars

\* a transmit write with no strobe set has just been dispatched to the
\* enabled UART and its byte 'A' is the output stream
C24_Witness ==
    /\ pc = "vga"
    /\ top_out.io_memory_bundle_write_enable
    /\ top_out.io_memory_bundle_write_strobe = NoStrobes
    /\ BusTarget = "uart"
    /\ WSub(BusEa, UART_BASE) = W(0, 0, 0, 16)
    /\ uart.enabled
    /\ uart.tx_log = <<65>>

\* the word index of the configured halt address
HaltWord == WDiv4(cfg.halt_address)

\* the halt address is configured and inside the memory, and the word there
\* is 0xBABECAFE
SentinelSeen ==
    /\ cfg.halt_address # ZeroWord
    /\ HaltWord < cfg.memory_words
    /\ memory[HaltWord] = W(186, 190, 202, 254)

\* C25: halt termination depends only on the memory word at the halt
\* address as it is after the tick's dispatch.  The halt check of a tick,
\* reset ticks included, ends the loop exactly when the halt address is
\* non-zero and inside the memory and its word is 0xBABECAFE; so with halt
\* address 0 or one outside the capacity the run never halts, whatever is
\* written (word 0 included), and with a non-zero in-range halt address no
\* tick ends with the sentinel there and the loop going on: the loop ends
\* in the first such tick, whether image or writes put the value there.
C25_HaltSentinel ==
    /\ [][ (pc = "halt" /\ pc' # "halt") =>
             ((pc' = Teardown /\ exit_reason' = "halt") <=> SentinelSeen) ]_vars
    /\ [](exit_reason = "halt" => SentinelSeen)
    /\ []((cfg.halt_address = ZeroWord \/ HaltWord >= cfg.memory_words)
             => exit_reason # "halt")
    /\ []((pc = "progress" \/ (pc = "loop" /\ main_time >= 1))
             => ~SentinelSeen)

\* the run halted in its second tick: the sentinel was completed there by
\* the write of the high half, the low half having been written in tick 1
C25_Witness ==
    /\ exit_reason = "halt"
    /\ main_time = 2
    /\ cfg.halt_address = W(0, 0, 16, 4)
    /\ top_out.io_memory_bundle_write_enable
    /\ top_out.io_memory_bundle_write_strobe = HighHalf
    /\ sentinel_tick = 2

=============================================================================
